---- MODULE Spec2Model ----
(***************************************************************************)
(* Model of the metrics pipeline core of system-detection:                 *)
(*   - CircularBuffer<T>   (src/src/services/highPerfService.ts:191-259)   *)
(*   - throttle            (src/src/services/highPerfService.ts:262-286)   *)
(*   - debounce            (src/src/services/highPerfService.ts:289-304)   *)
(*   - useThrottledMetrics (src/src/hooks/useThrottledMetrics.ts)          *)
(*   - useMetricsHistory   (src/src/hooks/useMetricsHistory.ts)            *)
(* Time is a discrete clock (Date.now()); setTimeout timers are records    *)
(* that become eligible at their due time and fire at or after it.         *)
(***************************************************************************)
EXTENDS Integers, Sequences, FiniteSets, TLC

\* ------------------------------------------------------------------ bounds
MaxCap == 3        \* largest CircularBuffer capacity explored
MaxPush == 5       \* number of push calls explored (each pushes a fresh item)
MaxDelay == 2      \* largest throttle/debounce delay explored (clock ticks)
MaxCalls == 3      \* number of calls of a throttled/debounced function explored
TimeSpan == 5      \* number of clock ticks explored after the start time

\* ------------------------------------------------------------- state
VARIABLES
  \* CircularBuffer fields
  buffer, head, tail, size, capacity,
  \* observation of the last CircularBuffer call: its name and return value
  bufOp, bufRet,
  \* history of the CircularBuffer: next fresh item, abstract FIFO content,
  \* successful pushes / pops since the last clear, last item pushed before
  \* the last clear, whether clear was ever called
  nextItem, fifo, nPush, nPop, clearMark, cleared,
  \* the clock (Date.now()) and the pending setTimeout timers
  now, timers, nextTimerId,
  \* throttle closure: delay, timeoutId, lastExecTime
  delay, timeoutId, lastExecTime,
  \* history of the throttled function: the time of every call (call k
  \* carries the argument k) and every invocation of func
  calls, invoked,
  \* debounce closure: delay, timeoutId, and its pending timers
  debDelay, debTimeoutId, debTimers, debNextTimerId,
  \* history of the debounced function: the time of every call (call k
  \* carries the argument k) and every invocation of func
  debCalls, debInvoked,
  \* useThrottledMetrics: the throttleMs argument, the metrics prop of the last
  \* render, the throttledMetrics state, lastUpdateRef, pendingUpdateRef, the
  \* pending timers, the hook's lifecycle and whether the last effect returned
  \* a cleanup function
  throttleMs, metrics, throttledMetrics, lastUpdateRef, pendingUpdateRef,
  tdTimers, tdNextTimerId, tdLife, tdHasCleanup,
  \* history of useThrottledMetrics: every arrival (a render with a new
  \* metrics value) and every value delivered to the consumer
  tdArrivals, tdDelivered,
  \* useMetricsHistory: the currentValue prop of the last render, historyRef
  currentValue, historyRef,
  \* history of useMetricsHistory: the renders so far, the repeated values
  \* among them, every point the effect appended
  hsRenders, hsRepeats, hsAppended,
  \* the array object that historyRef.current refers to (a new number for
  \* every new array), the array a reader of the hook's return value holds,
  \* and the content of that array once historyRef refers to another one
  hsObj, hsSnap, hsOld,
  \* the array a reader of CircularBuffer.toArray() holds, and the content of
  \* the result array that toArray built for it
  bufSnap, bufHeap,
  \* PerformanceMonitor: the metrics map (name -> history) and the names for
  \* which a stop function returned by startTimer exists
  pmMetrics, pmStops,
  \* history of the PerformanceMonitor: per name the number of values ever
  \* recorded and the values recorded since the last clear(); whether clear()
  \* was ever called
  pmCount, pmSince, pmCleared,
  \* the last call of an analysis function: its name, its argument and its
  \* return value
  daOp, daIn, daOut,
  \* HighPerfMonitoringService: the running flag and the registered callback
  isRunning, metricsCallback,
  \* KernelMonitoringService: the listening flag, the registered callback and
  \* the interval timer; the metrics state of the KernelMonitor component
  isListening, kernelCallback, intervalId, kernelMetrics,
  \* history of the services: the services that were stopped at least once
  svcStopped,
  \* App: whether the component is mounted, its state isMonitoring, error and
  \* systemInfo, the metrics payload of the last event, and whether the
  \* 'system-metrics' listener is subscribed
  appLife, isMonitoring, error, systemInfo, appMetrics, appSubscribed,
  \* the backend commands App has invoked that have not settled yet (per
  \* command), the number of toggle activations, the last command that
  \* succeeded while App was mounted and whether get_system_info has failed
  appPending, appToggles, appLastOk, appInfoFailed,
  \* HighPerfMonitoringService in detail: the state of the event subscription
  \* made by the constructor, the unsubscribe field, the start and stop
  \* commands awaited, whether destroy() was called
  hpListener, unsubscribe, hpStartPending, hpStopPending, hpDestroyed,
  \* history: the number of calls of startMonitoring/stopMonitoring, of start
  \* commands issued and of invocations of the metrics callback
  hpApiCalls, hpStartIssued, hpDelivered,
  \* AppWrapper: whether it is mounted, the position of its init() function,
  \* whether init runs against the mock service, the init timeout, the poll
  \* interval and the 'system-metrics' listener, the cleanup function React
  \* holds for the effect, whether stop_monitoring was invoked
  wrapLife, wrapInit, wrapMock, wrapTimeout, wrapPoll, wrapListener,
  wrapEffectCleanup, wrapStopInvoked,
  \* AppWrapper state: the last values passed to setLoading, setError,
  \* setSystemInfo and setIsMonitoring, and the number of setMetrics calls
  wrapLoading, wrapError, wrapInfo, wrapMonitoring, wrapUpdates

bufVars == <<buffer, head, tail, size, capacity, bufOp, bufRet,
             nextItem, fifo, nPush, nPop, clearMark, cleared>>

clockVars == <<now>>

thrVars == <<timers, nextTimerId, delay, timeoutId, lastExecTime, calls, invoked>>

debVars == <<debDelay, debTimeoutId, debTimers, debNextTimerId, debCalls, debInvoked>>

tdVars == <<throttleMs, metrics, throttledMetrics, lastUpdateRef, pendingUpdateRef,
            tdTimers, tdNextTimerId, tdLife, tdHasCleanup, tdArrivals, tdDelivered>>

hsVars == <<currentValue, historyRef, hsRenders, hsRepeats, hsAppended,
            hsObj, hsSnap, hsOld>>

readerVars == <<bufSnap, bufHeap>>

\* the components besides buffer, rate limiters and hooks
pmVars == <<pmMetrics, pmStops, pmCount, pmSince, pmCleared>>

daVars == <<daOp, daIn, daOut>>

\* the two monitoring services and the component fed by the kernel service
svcVars == <<isRunning, metricsCallback, isListening, kernelCallback, intervalId,
             kernelMetrics, svcStopped>>

\* the App component
appVars == <<appLife, isMonitoring, error, systemInfo, appMetrics, appSubscribed,
             appPending, appToggles, appLastOk, appInfoFailed>>

\* the components of the user interface and their service
\* HighPerfMonitoringService with its asynchronous steps
hpVars == <<hpListener, unsubscribe, hpStartPending, hpStopPending, hpDestroyed,
            hpApiCalls, hpStartIssued, hpDelivered>>

\* the AppWrapper component
wrapVars == <<wrapLife, wrapInit, wrapMock, wrapTimeout, wrapPoll, wrapListener,
              wrapEffectCleanup, wrapStopInvoked,
              wrapLoading, wrapError, wrapInfo, wrapMonitoring, wrapUpdates>>

uiVars == <<appVars, hpVars, wrapVars>>

moreVars == <<readerVars, pmVars, daVars, svcVars, uiVars>>

\* the React hooks
hookVars == <<tdVars, hsVars>>

vars == <<bufVars, clockVars, thrVars, debVars, hookVars, moreVars>>

\* `undefined`: the content of an array hole and the "empty" signal of pop/peek
Undefined == 0

\* the return value of a CircularBuffer call: the boolean of push, the item of
\* pop/peek, the array of toArray (fields a call does not return stay neutral)
Ret(ok, item, arr) == [ok |-> ok, item |-> item, arr |-> arr]

NoRet == Ret(FALSE, Undefined, <<>>)

\* ------------------------------------------------------- CircularBuffer
\* index arithmetic of push/pop/toArray: (i + 1) % this.capacity
NextIndex(i, cap) == (i + 1) % cap

\* push's guard: this.size >= this.capacity
IsFull(sz, cap) == sz >= cap

\* toArray(): walk `size` slots starting at tail, wrapping modulo capacity
RECURSIVE ToArrayFrom(_, _, _, _, _)
ToArrayFrom(buf, current, count, sz, cap) ==
  IF count < sz
  THEN <<buf[current]>> \o ToArrayFrom(buf, NextIndex(current, cap), count + 1, sz, cap)
  ELSE <<>>

\* mutant of ToArray: the walk starts at slot 0 instead of tail
ToArrayFromZero == ToArrayFrom(buffer, 0, 0, size, capacity)

ToArray == ToArrayFrom(buffer, tail, 0, size, capacity)

\* getSize(), getCapacity()
GetSize == size

GetCapacity == capacity

\* peek() as a value: undefined when empty, else buffer[tail]
PeekValue == IF size = 0 THEN Undefined ELSE buffer[tail]

\* constructor(capacity): new Array(capacity), head = tail = size = 0
BufInit ==
  /\ capacity \in 1..MaxCap
  /\ buffer = [i \in 0..(capacity - 1) |-> Undefined]
  /\ head = 0
  /\ tail = 0
  /\ size = 0
  /\ bufOp = "new"
  /\ bufRet = NoRet
  /\ nextItem = 1
  /\ fifo = <<>>
  /\ nPush = 0
  /\ nPop = 0
  /\ clearMark = 0
  /\ cleared = FALSE

\* mutant of Push: the capacity check is missing, the item is always stored
PushUnchecked ==
  /\ UNCHANGED <<clockVars, thrVars, debVars, hookVars, moreVars>>
  /\ nextItem <= MaxPush
  /\ bufOp' = "push"
  /\ nextItem' = nextItem + 1
  /\ buffer' = [buffer EXCEPT ![head] = nextItem]
  /\ head' = NextIndex(head, capacity)
  /\ size' = size + 1
  /\ bufRet' = Ret(TRUE, Undefined, <<>>)
  /\ fifo' = Append(fifo, nextItem)
  /\ nPush' = nPush + 1
  /\ UNCHANGED <<tail, capacity, nPop, clearMark, cleared>>

\* mutant of Push: a full buffer overwrites its oldest item (overwriting ring)
PushOverwrite ==
  /\ UNCHANGED <<clockVars, thrVars, debVars, hookVars, moreVars>>
  /\ nextItem <= MaxPush
  /\ bufOp' = "push"
  /\ nextItem' = nextItem + 1
  /\ buffer' = [buffer EXCEPT ![head] = nextItem]
  /\ head' = NextIndex(head, capacity)
  /\ IF IsFull(size, capacity)
     THEN /\ tail' = NextIndex(tail, capacity)
          /\ bufRet' = Ret(FALSE, Undefined, <<>>)
          /\ UNCHANGED <<size, capacity, fifo, nPush, nPop, clearMark, cleared>>
     ELSE /\ size' = size + 1
          /\ bufRet' = Ret(TRUE, Undefined, <<>>)
          /\ fifo' = Append(fifo, nextItem)
          /\ nPush' = nPush + 1
          /\ UNCHANGED <<tail, capacity, nPop, clearMark, cleared>>

\* push(item): rejected when full, else store at head and advance head
Push ==
  /\ UNCHANGED <<clockVars, thrVars, debVars, hookVars, moreVars>>
  /\ nextItem <= MaxPush
  /\ bufOp' = "push"
  /\ nextItem' = nextItem + 1
  /\ IF IsFull(size, capacity)
     THEN /\ bufRet' = Ret(FALSE, Undefined, <<>>)
          /\ UNCHANGED <<buffer, head, tail, size, capacity, fifo, nPush, nPop,
                         clearMark, cleared>>
     ELSE /\ buffer' = [buffer EXCEPT ![head] = nextItem]
          /\ head' = NextIndex(head, capacity)
          /\ size' = size + 1
          /\ bufRet' = Ret(TRUE, Undefined, <<>>)
          /\ fifo' = Append(fifo, nextItem)
          /\ nPush' = nPush + 1
          /\ UNCHANGED <<tail, capacity, nPop, clearMark, cleared>>

\* mutant of Pop: the empty check is missing
PopUnguarded ==
  /\ UNCHANGED <<clockVars, thrVars, debVars, hookVars, moreVars>>
  /\ bufOp' = "pop"
  /\ bufRet' = Ret(FALSE, buffer[tail], <<>>)
  /\ tail' = NextIndex(tail, capacity)
  /\ size' = size - 1
  /\ fifo' = IF fifo = <<>> THEN fifo ELSE Tail(fifo)
  /\ nPop' = nPop + 1
  /\ UNCHANGED <<buffer, head, capacity, nextItem, nPush, clearMark, cleared>>

\* pop(): undefined when empty, else return buffer[tail] and advance tail
Pop ==
  /\ UNCHANGED <<clockVars, thrVars, debVars, hookVars, moreVars>>
  /\ bufOp' = "pop"
  /\ IF size = 0
     THEN /\ bufRet' = Ret(FALSE, Undefined, <<>>)
          /\ UNCHANGED <<buffer, head, tail, size, capacity, nextItem, fifo,
                         nPush, nPop, clearMark, cleared>>
     ELSE /\ bufRet' = Ret(FALSE, buffer[tail], <<>>)
          /\ tail' = NextIndex(tail, capacity)
          /\ size' = size - 1
          /\ fifo' = Tail(fifo)
          /\ nPop' = nPop + 1
          /\ UNCHANGED <<buffer, head, capacity, nextItem, nPush, clearMark, cleared>>

\* peek(): undefined when empty, else buffer[tail]; no assignment
Peek ==
  /\ UNCHANGED <<clockVars, thrVars, debVars, hookVars, moreVars>>
  /\ bufOp' = "peek"
  /\ bufRet' = Ret(FALSE, PeekValue, <<>>)
  /\ UNCHANGED <<buffer, head, tail, size, capacity, nextItem, fifo, nPush, nPop,
                 clearMark, cleared>>

\* toArray(): builds a fresh array; no assignment to the buffer's fields
ToArrayCall ==
  /\ UNCHANGED <<clockVars, thrVars, debVars, hookVars, moreVars>>
  /\ bufOp' = "toArray"
  /\ bufRet' = Ret(FALSE, Undefined, ToArray)
  /\ UNCHANGED <<buffer, head, tail, size, capacity, nextItem, fifo, nPush, nPop,
                 clearMark, cleared>>

\* mutant of Clear: tail is not reset
ClearKeepTail ==
  /\ UNCHANGED <<clockVars, thrVars, debVars, hookVars, moreVars>>
  /\ bufOp' = "clear"
  /\ bufRet' = NoRet
  /\ head' = 0
  /\ size' = 0
  /\ fifo' = <<>>
  /\ nPush' = 0
  /\ nPop' = 0
  /\ clearMark' = nextItem - 1
  /\ cleared' = TRUE
  /\ UNCHANGED <<buffer, tail, capacity, nextItem>>

\* clear(): head = tail = size = 0; the array keeps its old slots
Clear ==
  /\ UNCHANGED <<clockVars, thrVars, debVars, hookVars, moreVars>>
  /\ bufOp' = "clear"
  /\ bufRet' = NoRet
  /\ head' = 0
  /\ tail' = 0
  /\ size' = 0
  /\ fifo' = <<>>
  /\ nPush' = 0
  /\ nPop' = 0
  /\ clearMark' = nextItem - 1
  /\ cleared' = TRUE
  /\ UNCHANGED <<buffer, capacity, nextItem>>

NextBuf ==
  \/ Push
  \/ Pop
  \/ Peek
  \/ ToArrayCall
  \/ Clear

\* ------------------------------------------- a reader of toArray()'s result
\* no array is held
NoSnap == [held |-> FALSE, obj |-> "none", taken |-> <<>>]

\* this.buffer, the internal array of the CircularBuffer, as a sequence
BufSlots == [i \in 1..capacity |-> buffer[i - 1]]

\* mutant of ToArrayResult: toArray hands out the internal array
ToArrayResultInternal == "internal"

\* the array object toArray returns: `const result: T[] = []`, a new array
ToArrayResult == "fresh"

\* the present content of the array the reader holds
BufView == IF bufSnap.obj = "internal" THEN BufSlots ELSE bufHeap

ReaderInit ==
  /\ bufSnap = NoSnap
  /\ bufHeap = <<>>

ReaderParked == ReaderInit

\* toArray() called by a reader that keeps the returned array
ToArrayKeep ==
  /\ UNCHANGED <<clockVars, thrVars, debVars, hookVars, pmVars, daVars, svcVars, uiVars>>
  /\ bufOp' = "toArray"
  /\ bufRet' = Ret(FALSE, Undefined, ToArray)
  /\ bufHeap' = ToArray
  /\ bufSnap' = [held |-> TRUE, obj |-> ToArrayResult,
                 taken |-> IF ToArrayResult = "internal" THEN BufSlots ELSE ToArray]
  /\ UNCHANGED <<buffer, head, tail, size, capacity, nextItem, fifo, nPush, nPop,
                 clearMark, cleared>>

\* ------------------------------------------------------- clock and timers
\* `null` timer handle
Null == 0

\* a start time later than every delay, as with a wall clock read by Date.now()
StartReal == MaxDelay + 1

MaxTime == StartReal + TimeSpan

\* setTimeout(callback, ms): a pending timer, due ms after now
NewTimer(id, ms, args) == [id |-> id, due |-> now + ms, args |-> args]

\* clearTimeout(id): the timer with this handle, if still pending, is removed
ClearTimeout(pending, id) == {t \in pending : t.id # id}

\* one invocation of func: when, with which arguments, from a call or a timer,
\* and how many calls had been made by then
Invocation(args, by) == [at |-> now, args |-> args, by |-> by, seen |-> Len(calls)]

\* ---------------------------------------------------------------- throttle
\* throttle(func, delay): timeoutId = null, lastExecTime = 0
ThrInit ==
  /\ delay \in 1..MaxDelay
  /\ timers = {}
  /\ nextTimerId = 1
  /\ timeoutId = Null
  /\ lastExecTime = 0
  /\ calls = <<>>
  /\ invoked = <<>>

\* the throttle is not used
ThrParked ==
  /\ delay = 1
  /\ timers = {}
  /\ nextTimerId = 1
  /\ timeoutId = Null
  /\ lastExecTime = 0
  /\ calls = <<>>
  /\ invoked = <<>>

\* the condition of the immediate branch: currentTime - lastExecTime > delay
ThrottleOpen(currentTime, last, d) == currentTime - last > d

\* the function returned by throttle, called with fresh arguments
ThrCallBody ==
  /\ LET args == Len(calls) + 1
         currentTime == now
     IN /\ calls' = Append(calls, now)
        /\ IF ThrottleOpen(currentTime, lastExecTime, delay)
           THEN /\ invoked' = Append(invoked, [Invocation(args, "call") EXCEPT !.seen = args])
                /\ lastExecTime' = currentTime
                /\ UNCHANGED <<timers, nextTimerId, timeoutId>>
           ELSE /\ timers' =
                     (IF timeoutId # Null THEN ClearTimeout(timers, timeoutId) ELSE timers)
                       \cup {NewTimer(nextTimerId, delay - (currentTime - lastExecTime), args)}
                /\ timeoutId' = nextTimerId
                /\ nextTimerId' = nextTimerId + 1
                /\ UNCHANGED <<invoked, lastExecTime>>
  /\ UNCHANGED <<now, delay, bufVars, moreVars, debVars, hookVars>>

\* a call of the throttled function
ThrCall ==
  /\ Len(calls) < MaxCalls
  /\ ThrCallBody

\* a pending timer of the throttle fires, at or after its due time
ThrTimerFire ==
  /\ \E t \in timers :
       /\ t.due <= now
       /\ invoked' = Append(invoked, Invocation(t.args, "timer"))
       /\ lastExecTime' = now
       /\ timers' = timers \ {t}
  /\ UNCHANGED <<now, delay, nextTimerId, timeoutId, calls, bufVars, moreVars, debVars, hookVars>>

\* the clock advances
Tick ==
  /\ now < MaxTime
  /\ now' = now + 1
  /\ UNCHANGED <<bufVars, moreVars, thrVars, debVars, hookVars>>

\* ------------------------------------------------- throttle, timed scenario
\* a scripted run under a clock that starts at 0 and timers that fire exactly
\* at their due time (a fake-timer test): the delay, the call times, the end
ScnDelay == 100

ScnCallTimes == <<0, 10, 20, 30>>

ScnEnd == 120

\* throttle(func, ScnDelay)
ThrScnInit ==
  /\ delay = ScnDelay
  /\ timers = {}
  /\ nextTimerId = 1
  /\ timeoutId = Null
  /\ lastExecTime = 0
  /\ calls = <<>>
  /\ invoked = <<>>

\* the script has a call to make at this instant
ScnCallDue ==
  /\ Len(calls) < Len(ScnCallTimes)
  /\ now = ScnCallTimes[Len(calls) + 1]

\* a timer of the throttle is due at this instant
ScnTimerDue == \E t \in timers : t.due <= now

\* the next call of the script, after the timers due at this instant
ScnCall ==
  /\ ScnCallDue
  /\ ~ScnTimerDue
  /\ ThrCallBody

\* the clock advances once the calls and timers of this instant are done
ScnTick ==
  /\ now < ScnEnd
  /\ ~ScnCallDue
  /\ ~ScnTimerDue
  /\ now' = now + 1
  /\ UNCHANGED <<bufVars, moreVars, thrVars, debVars, hookVars>>

NextThrScn ==
  \/ ScnCall
  \/ ThrTimerFire
  \/ ScnTick

\* ---------------------------------------------------------------- debounce
\* debounce(func, delay): timeoutId = null
DebInit ==
  /\ debDelay \in 1..MaxDelay
  /\ debTimeoutId = Null
  /\ debTimers = {}
  /\ debNextTimerId = 1
  /\ debCalls = <<>>
  /\ debInvoked = <<>>

\* the debounce is not used
DebParked ==
  /\ debDelay = 1
  /\ debTimeoutId = Null
  /\ debTimers = {}
  /\ debNextTimerId = 1
  /\ debCalls = <<>>
  /\ debInvoked = <<>>

\* mutant of DebCall: the pending timer is not cleared
DebCallNoCancel ==
  /\ Len(debCalls) < MaxCalls
  /\ LET args == Len(debCalls) + 1
     IN /\ debCalls' = Append(debCalls, now)
        /\ debTimers' = debTimers \cup {NewTimer(debNextTimerId, debDelay, args)}
        /\ debTimeoutId' = debNextTimerId
        /\ debNextTimerId' = debNextTimerId + 1
  /\ UNCHANGED <<debDelay, debInvoked, clockVars, bufVars, moreVars, thrVars, hookVars>>

\* a call of the debounced function with fresh arguments: cancel, reschedule
DebCall ==
  /\ Len(debCalls) < MaxCalls
  /\ LET args == Len(debCalls) + 1
     IN /\ debCalls' = Append(debCalls, now)
        /\ debTimers' =
             (IF debTimeoutId # Null THEN ClearTimeout(debTimers, debTimeoutId)
                                     ELSE debTimers)
               \cup {NewTimer(debNextTimerId, debDelay, args)}
        /\ debTimeoutId' = debNextTimerId
        /\ debNextTimerId' = debNextTimerId + 1
  /\ UNCHANGED <<debDelay, debInvoked, clockVars, bufVars, moreVars, thrVars, hookVars>>

\* a pending timer of the debounce fires, at or after its due time
DebTimerFire ==
  /\ \E t \in debTimers :
       /\ t.due <= now
       /\ debInvoked' = Append(debInvoked,
            [at |-> now, args |-> t.args, by |-> "timer", seen |-> Len(debCalls)])
       /\ debTimers' = debTimers \ {t}
  /\ UNCHANGED <<debDelay, debTimeoutId, debNextTimerId, debCalls, clockVars,
                 bufVars, moreVars, thrVars, hookVars>>

\* --------------------------------------------- debounce, punctual timers
\* a timer of the debounce is due at this instant
DebTimerDue == \E t \in debTimers : t.due <= now

\* a call of the debounced function, after the timers due at this instant
DebCallExact ==
  /\ ~DebTimerDue
  /\ DebCall

\* the clock advances once the timers due at this instant have fired
DebTickExact ==
  /\ ~DebTimerDue
  /\ Tick

NextDebExact ==
  \/ DebCallExact
  \/ DebTimerFire
  \/ DebTickExact

\* ----------------------------------------------------- useThrottledMetrics
MaxArrivals == 3   \* number of renders with a new metrics value explored

\* useState(metrics), useRef(0), useRef(null): the hook before its first render
TdInit ==
  /\ throttleMs \in 1..MaxDelay
  /\ metrics = Null
  /\ throttledMetrics = Null
  /\ lastUpdateRef = 0
  /\ pendingUpdateRef = Null
  /\ tdTimers = {}
  /\ tdNextTimerId = 1
  /\ tdLife = "new"
  /\ tdHasCleanup = FALSE
  /\ tdArrivals = <<>>
  /\ tdDelivered = <<>>

\* the hook is not used
TdParked ==
  /\ throttleMs = 1
  /\ metrics = Null
  /\ throttledMetrics = Null
  /\ lastUpdateRef = 0
  /\ pendingUpdateRef = Null
  /\ tdTimers = {}
  /\ tdNextTimerId = 1
  /\ tdLife = "new"
  /\ tdHasCleanup = FALSE
  /\ tdArrivals = <<>>
  /\ tdDelivered = <<>>

\* mutant of TdOpen: every arrival is delivered at once
TdOpenAlways(timeSinceLastUpdate, ms) == TRUE

\* the condition of the immediate branch: timeSinceLastUpdate >= throttleMs
TdOpen(timeSinceLastUpdate, ms) == timeSinceLastUpdate >= ms

\* mutant of TdDelay: the operands are swapped
TdDelaySwapped(ms, timeSinceLastUpdate) == timeSinceLastUpdate - ms

\* mutant of TdDelay: the update is scheduled a whole interval after the arrival
TdDelayFull(ms, timeSinceLastUpdate) == ms

\* the delay of the scheduled update: throttleMs - timeSinceLastUpdate
TdDelay(ms, timeSinceLastUpdate) == ms - timeSinceLastUpdate

\* mutant of TdCancel: the pending timer is not cleared
TdCancelNone(pending, ref) == pending

\* if (pendingUpdateRef.current) clearTimeout(pendingUpdateRef.current)
TdCancel(pending, ref) == IF ref # Null THEN ClearTimeout(pending, ref) ELSE pending

\* the consumer's view changes when setThrottledMetrics (or the initial
\* useState value) differs from the state it already has
TdDeliver(newState, by, seen) ==
  IF newState = throttledMetrics
  THEN tdDelivered
  ELSE Append(tdDelivered, [at |-> now, val |-> newState, by |-> by, seen |-> seen])

\* one render with the metrics value m followed by its effect: the cleanup of
\* the previous effect (if it returned one) runs first, then the effect body
TdRender(m) ==
  LET isMount == tdLife = "new"
      afterCleanup == IF tdHasCleanup THEN TdCancel(tdTimers, pendingUpdateRef)
                                      ELSE tdTimers
      seen == Len(tdArrivals) + 1
  IN /\ metrics' = m
     /\ tdArrivals' = Append(tdArrivals, [at |-> now, val |-> m])
     /\ IF m = Null
        THEN /\ throttledMetrics' = Null
             /\ tdDelivered' = TdDeliver(Null, "arrival", seen)
             /\ tdTimers' = afterCleanup
             /\ tdHasCleanup' = FALSE
             /\ UNCHANGED <<lastUpdateRef, pendingUpdateRef, tdNextTimerId>>
        ELSE LET timeSinceLastUpdate == now - lastUpdateRef
                 noPending == TdCancel(afterCleanup, pendingUpdateRef)
             IN /\ tdHasCleanup' = TRUE
                /\ IF TdOpen(timeSinceLastUpdate, throttleMs)
                   THEN /\ throttledMetrics' = m
                        /\ tdDelivered' = TdDeliver(m, "arrival", seen)
                        /\ lastUpdateRef' = now
                        /\ tdTimers' = noPending
                        /\ UNCHANGED <<pendingUpdateRef, tdNextTimerId>>
                   ELSE /\ throttledMetrics' = (IF isMount THEN m ELSE throttledMetrics)
                        /\ tdDelivered' =
                             (IF isMount THEN TdDeliver(m, "mount", seen) ELSE tdDelivered)
                        /\ tdTimers' = noPending \cup
                             {NewTimer(tdNextTimerId, TdDelay(throttleMs, timeSinceLastUpdate), m)}
                        /\ pendingUpdateRef' = tdNextTimerId
                        /\ tdNextTimerId' = tdNextTimerId + 1
                        /\ UNCHANGED lastUpdateRef
     /\ UNCHANGED <<throttleMs, clockVars, bufVars, moreVars, thrVars, debVars, hsVars>>

\* the first render of the hook, with no metrics yet or with a first value
TdMount ==
  /\ tdLife = "new"
  /\ tdLife' = "mounted"
  /\ \E m \in {Null, Len(tdArrivals) + 1} : TdRender(m)

\* an arrival: a render with a metrics value that differs from the last one
TdArrival ==
  /\ tdLife = "mounted"
  /\ Len(tdArrivals) < MaxArrivals
  /\ tdLife' = tdLife
  /\ \E m \in {Null, Len(tdArrivals) + 1} :
       /\ m # metrics
       /\ TdRender(m)

\* the scheduled update fires, at or after its due time
TdTimerFire ==
  /\ \E t \in tdTimers :
       /\ t.due <= now
       /\ throttledMetrics' = t.args
       /\ tdDelivered' = TdDeliver(t.args, "timer", Len(tdArrivals))
       /\ lastUpdateRef' = now
       /\ tdTimers' = tdTimers \ {t}
  /\ UNCHANGED <<throttleMs, metrics, pendingUpdateRef, tdNextTimerId, tdLife,
                 tdHasCleanup, tdArrivals, clockVars, bufVars, moreVars, thrVars, debVars, hsVars>>

\* mutant of TdUnmount: the cleanup does not clear the pending timer
TdUnmountNoClear ==
  /\ tdLife = "mounted"
  /\ tdLife' = "unmounted"
  /\ UNCHANGED <<throttleMs, metrics, throttledMetrics, lastUpdateRef, pendingUpdateRef,
                 tdTimers, tdNextTimerId, tdHasCleanup, tdArrivals, tdDelivered,
                 clockVars, bufVars, moreVars, thrVars, debVars, hsVars>>

\* unmount: the cleanup of the last effect (if it returned one) runs
TdUnmount ==
  /\ tdLife = "mounted"
  /\ tdLife' = "unmounted"
  /\ tdTimers' = (IF tdHasCleanup THEN TdCancel(tdTimers, pendingUpdateRef) ELSE tdTimers)
  /\ UNCHANGED <<throttleMs, metrics, throttledMetrics, lastUpdateRef, pendingUpdateRef,
                 tdNextTimerId, tdHasCleanup, tdArrivals, tdDelivered,
                 clockVars, bufVars, moreVars, thrVars, debVars, hsVars>>

\* the clock advances; it runs past the explored span only up to the due time
\* of a scheduled update
TdTick ==
  /\ now < MaxTime \/ (\E t \in tdTimers : t.due > now)
  /\ now' = now + 1
  /\ UNCHANGED <<bufVars, moreVars, thrVars, debVars, hookVars>>

NextTd ==
  \/ TdMount
  \/ TdArrival
  \/ TdTimerFire
  \/ TdUnmount
  \/ TdTick

\* ------------------------------------------------------- useMetricsHistory
\* useRef([]): the hook before its first render
HsInit ==
  /\ currentValue = Null
  /\ historyRef = <<>>
  /\ hsRenders = 0
  /\ hsRepeats = 0
  /\ hsAppended = <<>>
  /\ hsObj = 0
  /\ hsSnap = NoSnap
  /\ hsOld = <<>>

HsParked == HsInit

HooksParked == TdParked /\ HsParked

\* ------------------------------------------------------ PerformanceMonitor
maxHistory == 1000

MaxRecords == 1002     \* values recorded under the first name
MaxOtherRecords == 2   \* values recorded under every other name
MaxLifeRecords == 3    \* values recorded per name where clear() is explored

\* the names the monitor is used with (HighPerfCpuMonitor.tsx:26, 53)
PmNames == {"cpu-data-processing", "chart-data-processing"}

\* the number of values recorded under a name in the long run
PmQuota(name) == IF name = "cpu-data-processing" THEN MaxRecords ELSE MaxOtherRecords

\* the n-th value recorded under a name (a duration or a recordMetric
\* argument): the first is the smallest of all, the second the largest
PmSample(n) == IF n = 1 THEN 1 ELSE IF n = 2 THEN 9 ELSE 3 + (n % 3)

\* a Map without entries
EmptyMap == [name \in {} |-> <<>>]

\* private metrics: Map<string, number[]> = new Map()
PmInit ==
  /\ pmMetrics = EmptyMap
  /\ pmStops = {}
  /\ pmCount = [name \in PmNames |-> 0]
  /\ pmSince = EmptyMap
  /\ pmCleared = FALSE

PmParked == PmInit

\* the map after `if (!has(name)) set(name, [])`
PmEnsure(m, name) ==
  [n \in DOMAIN m \cup {name} |-> IF n \in DOMAIN m THEN m[n] ELSE <<>>]

\* mutant of PmEvict: nothing is removed
PmEvictNone(history, cap) == history

\* mutant of PmEvict: the newest value is removed (pop instead of shift)
PmEvictNewest(history, cap) ==
  IF Len(history) > cap THEN SubSeq(history, 1, Len(history) - 1) ELSE history

\* if (history.length > this.maxHistory) history.shift()
PmEvict(history, cap) == IF Len(history) > cap THEN Tail(history) ELSE history

\* recordMetric(name, value) as a function of the map
PmRecorded(m, name, value) ==
  [PmEnsure(m, name) EXCEPT ![name] = PmEvict(Append(@, value), maxHistory)]

\* the bookkeeping of one recorded value
PmLog(name, value) ==
  /\ pmCount' = [pmCount EXCEPT ![name] = @ + 1]
  /\ pmSince' = [PmEnsure(pmSince, name) EXCEPT ![name] = Append(@, value)]

\* recordMetric(name, value)
PmRecordMetric(name) ==
  /\ pmMetrics' = PmRecorded(pmMetrics, name, PmSample(pmCount[name] + 1))
  /\ PmLog(name, PmSample(pmCount[name] + 1))
  /\ UNCHANGED <<pmStops, pmCleared>>
  /\ UNCHANGED <<bufVars, clockVars, thrVars, debVars, hookVars, readerVars, daVars,
                 svcVars, uiVars>>

\* startTimer(name): reads the clock and returns a stop function
PmStartTimer(name) ==
  /\ name \notin pmStops
  /\ pmStops' = pmStops \cup {name}
  /\ UNCHANGED <<pmMetrics, pmCount, pmSince, pmCleared>>
  /\ UNCHANGED <<bufVars, clockVars, thrVars, debVars, hookVars, readerVars, daVars,
                 svcVars, uiVars>>

\* a stop function is invoked: recordMetric(name, duration), where the
\* duration is the time since startTimer
PmStop(name) ==
  /\ name \in pmStops
  /\ pmMetrics' = PmRecorded(pmMetrics, name, PmSample(pmCount[name] + 1))
  /\ PmLog(name, PmSample(pmCount[name] + 1))
  /\ UNCHANGED <<pmStops, pmCleared>>
  /\ UNCHANGED <<bufVars, clockVars, thrVars, debVars, hookVars, readerVars, daVars,
                 svcVars, uiVars>>

\* mutant of PmClear: the map keeps its entries
PmClearNone ==
  /\ pmCleared' = TRUE
  /\ pmSince' = EmptyMap
  /\ UNCHANGED <<pmMetrics, pmStops, pmCount>>
  /\ UNCHANGED <<bufVars, clockVars, thrVars, debVars, hookVars, readerVars, daVars,
                 svcVars, uiVars>>

\* clear(): this.metrics.clear()
PmClear ==
  /\ pmMetrics' = EmptyMap
  /\ pmCleared' = TRUE
  /\ pmSince' = EmptyMap
  /\ UNCHANGED <<pmStops, pmCount>>
  /\ UNCHANGED <<bufVars, clockVars, thrVars, debVars, hookVars, readerVars, daVars,
                 svcVars, uiVars>>

\* the sum of s[lo..hi], split in halves to keep the evaluation shallow
RECURSIVE SumRange(_, _, _)
SumRange(s, lo, hi) ==
  IF lo > hi THEN 0
  ELSE IF lo = hi THEN s[lo]
  ELSE LET mid == (lo + hi) \div 2
       IN SumRange(s, lo, mid) + SumRange(s, mid + 1, hi)

\* history.reduce((acc, val) => acc + val, 0)
SeqSum(s) == SumRange(s, 1, Len(s))

\* the values of a history
SeqRange(s) == {s[i] : i \in 1..Len(s)}

\* a quotient of two integers, kept exact
Ratio(num, den) == [num |-> num, den |-> den]

\* the number 0
Zero == Ratio(0, 1)

\* the history getAverage/getMin/getMax work on: this.metrics.get(name)
PmHistory(name) == IF name \in DOMAIN pmMetrics THEN pmMetrics[name] ELSE <<>>

\* mutant of PmAverage: the sum is divided by the cap
PmAverageOverCap(history) ==
  IF history = <<>> THEN Zero ELSE Ratio(SeqSum(history), maxHistory)

\* getAverage: 0 without history, else sum / history.length
PmAverage(history) ==
  IF history = <<>> THEN Zero ELSE Ratio(SeqSum(history), Len(history))

\* getMin: 0 without history, else Math.min(...history)
PmMin(history) ==
  IF history = <<>> THEN 0
  ELSE CHOOSE v \in SeqRange(history) : \A w \in SeqRange(history) : v <= w

\* getMax: 0 without history, else Math.max(...history)
PmMax(history) ==
  IF history = <<>> THEN 0
  ELSE CHOOSE v \in SeqRange(history) : \A w \in SeqRange(history) : v >= w

GetAverage(name) == PmAverage(PmHistory(name))

GetMin(name) == PmMin(PmHistory(name))

GetMax(name) == PmMax(PmHistory(name))

\* getMetrics(): an entry for every name whose history is not empty
GetMetrics ==
  [name \in {n \in DOMAIN pmMetrics : Len(pmMetrics[n]) > 0} |->
     [count |-> Len(pmMetrics[name]), avg |-> GetAverage(name),
      min |-> GetMin(name), max |-> GetMax(name)]]

\* the long run of the monitor: recordMetric, startTimer and stop functions
NextPm ==
  \/ \E name \in PmNames : pmCount[name] < PmQuota(name) /\ PmRecordMetric(name)
  \/ \E name \in PmNames : PmStartTimer(name)
  \/ \E name \in PmNames : pmCount[name] < PmQuota(name) /\ PmStop(name)

\* short runs of the monitor with clear()
NextPmLife ==
  \/ \E name \in PmNames : pmCount[name] < MaxLifeRecords /\ PmRecordMetric(name)
  \/ \E name \in PmNames : PmStartTimer(name)
  \/ \E name \in PmNames : pmCount[name] < MaxLifeRecords /\ PmStop(name)
  \/ PmClear

\* ------------------------------------------------------ numbers
\* A JavaScript number is modelled as an exact fraction in lowest terms, or
\* as one of the special values NaN, Infinity, -Infinity that a division by
\* zero produces; the rounding of doubles is not modelled.
RECURSIVE Gcd(_, _)
Gcd(a, b) == IF b = 0 THEN a ELSE Gcd(b, a % b)

Abs(n) == IF n < 0 THEN -n ELSE n

\* the fraction n / d for d > 0
Frac(n, d) ==
  LET g == Gcd(Abs(n), d)
  IN [num |-> n \div g, den |-> d \div g, kind |-> "num"]

Num(n) == Frac(n, 1)

NaN == [num |-> 0, den |-> 1, kind |-> "nan"]

PosInf == [num |-> 1, den |-> 1, kind |-> "inf"]

NegInf == [num |-> -1, den |-> 1, kind |-> "inf"]

IsNumber(x) == x.kind = "num"

\* a / b for finite a and b: 0/0 is NaN, x/0 is Infinity with the sign of x
JsDiv(a, b) ==
  IF b.num = 0
  THEN IF a.num = 0 THEN NaN ELSE IF a.num > 0 THEN PosInf ELSE NegInf
  ELSE IF b.num > 0 THEN Frac(a.num * b.den, a.den * b.num)
       ELSE Frac(-(a.num * b.den), a.den * (-b.num))

\* a - b
JsSub(a, b) ==
  IF a.kind = "nan" \/ b.kind = "nan" THEN NaN
  ELSE IF a.kind = "inf" /\ b.kind = "inf"
       THEN IF a.num = b.num THEN NaN ELSE a
  ELSE IF a.kind = "inf" THEN a
  ELSE IF b.kind = "inf" THEN (IF b.num > 0 THEN NegInf ELSE PosInf)
  ELSE LET g == Gcd(a.den, b.den)
       IN Frac(a.num * (b.den \div g) - b.num * (a.den \div g), (a.den \div g) * b.den)

\* a < b: false when either is NaN
JsLess(a, b) ==
  IF a.kind = "nan" \/ b.kind = "nan" THEN FALSE
  ELSE IF a.kind = "inf" /\ b.kind = "inf" THEN a.num < b.num
  ELSE IF a.kind = "inf" THEN a.num < 0
  ELSE IF b.kind = "inf" THEN b.num > 0
  ELSE LET g == Gcd(a.den, b.den)
       IN a.num * (b.den \div g) < b.num * (a.den \div g)

\* Math.max(a, b): NaN when either is NaN
JsMax(a, b) ==
  IF a.kind = "nan" \/ b.kind = "nan" THEN NaN
  ELSE IF JsLess(a, b) THEN b ELSE a

\* ------------------------------------------------------ KernelMonitoringService analysis
\* snapshots the analysis functions are applied to
CpuSnapshots ==
  [cycles : {0, 4, 1000000}, instructions : {0, 5, 800000},
   cache_misses : {0, 3, 10000}, branch_misses : {0, 4, 2000}]

MemorySnapshots ==
  [memory_pressure : {Frac(p, 1000) : p \in {0, 499, 500, 501}},
   swap_ins : {0, 50, 99, 100}, swap_outs : {0, 49, 50},
   numa_hits : {0, 9}, numa_misses : {0, 1}]

LatencySnapshots ==
  [collection_latency_ns : {0, 2500}, processing_latency_ns : {500},
   total_latency_ns : {0, 9999, 10000, 10001, 49999, 50000, 50001}]

\* useState<KernelMetrics | null>(null): no snapshot yet
NoMetrics == [snapshot |-> "null"]

\* no analysis function was called yet
DaInit ==
  /\ daOp = "none"
  /\ daIn = Null
  /\ daOut = Null

DaParked == DaInit

\* mutant of Efficiency: the result is not clamped at 0
EfficiencyUnclamped(cacheMissRate, branchMissRate) ==
  JsSub(JsSub(Num(1), cacheMissRate), branchMissRate)

\* Math.max(0, 1 - cacheMissRate - branchMissRate)
Efficiency(cacheMissRate, branchMissRate) ==
  JsMax(Num(0), JsSub(JsSub(Num(1), cacheMissRate), branchMissRate))

\* analyzeCpuPerformance(metrics), a function of metrics.cpu
CpuPerformance(cpu) ==
  LET ipc == JsDiv(Num(cpu.instructions), Num(cpu.cycles))
      cacheMissRate == JsDiv(Num(cpu.cache_misses), Num(cpu.instructions))
      branchMissRate == JsDiv(Num(cpu.branch_misses), Num(cpu.instructions))
  IN [cacheMissRate |-> cacheMissRate, branchMissRate |-> branchMissRate, ipc |-> ipc,
      efficiency |-> Efficiency(cacheMissRate, branchMissRate)]

\* mutant of IsHealthy: the bounds are not strict
IsHealthyLoose(pressure, swapActivity) ==
  ~JsLess(Frac(1, 2), pressure) /\ ~JsLess(Frac(1, 10), swapActivity)

\* pressure < 0.5 && swapActivity < 0.1
IsHealthy(pressure, swapActivity) ==
  JsLess(pressure, Frac(1, 2)) /\ JsLess(swapActivity, Frac(1, 10))

\* analyzeMemoryPressure(metrics), a function of metrics.memory
MemoryPressure(memory) ==
  LET pressure == memory.memory_pressure
      swapActivity == JsDiv(Num(memory.swap_ins + memory.swap_outs), Num(1000))
      numaEfficiency == JsDiv(Num(memory.numa_hits),
                              Num(memory.numa_hits + memory.numa_misses))
  IN [pressure |-> pressure, swapActivity |-> swapActivity,
      numaEfficiency |-> numaEfficiency,
      isHealthy |-> IsHealthy(pressure, swapActivity)]

\* mutant of ToMicros: the nanoseconds are not converted
ToMicrosNone(ns) == Num(ns)

\* nanoseconds to microseconds: ns / 1000
ToMicros(ns) == JsDiv(Num(ns), Num(1000))

\* analyzeLatency(metrics), a function of metrics.latency
Latency(latency) ==
  LET totalLatency == ToMicros(latency.total_latency_ns)
  IN [totalLatency |-> totalLatency,
      collectionLatency |-> ToMicros(latency.collection_latency_ns),
      processingLatency |-> ToMicros(latency.processing_latency_ns),
      isOptimal |-> JsLess(totalLatency, Num(10))]

\* getPerformanceStatus() of the KernelMonitor component, a function of its
\* metrics state (null before the first snapshot)
PerformanceStatus(m) ==
  IF m = NoMetrics THEN "Unknown"
  ELSE LET latencyAnalysis == Latency(m)
       IN IF latencyAnalysis.isOptimal THEN "Optimal"
          ELSE IF JsLess(latencyAnalysis.totalLatency, Num(50)) THEN "Good"
          ELSE "Poor"

DaCall(op, arg, out) ==
  /\ daOp' = op
  /\ daIn' = arg
  /\ daOut' = out
  /\ UNCHANGED <<bufVars, clockVars, thrVars, debVars, hookVars, readerVars, pmVars,
                 svcVars, uiVars>>

AnalyzeCpuPerformance ==
  \E cpu \in CpuSnapshots : DaCall("analyzeCpuPerformance", cpu, CpuPerformance(cpu))

AnalyzeMemoryPressure ==
  \E memory \in MemorySnapshots :
    DaCall("analyzeMemoryPressure", memory, MemoryPressure(memory))

AnalyzeLatency ==
  \E latency \in LatencySnapshots : DaCall("analyzeLatency", latency, Latency(latency))

GetPerformanceStatus ==
  \E m \in LatencySnapshots \cup {NoMetrics} :
    DaCall("getPerformanceStatus", m, PerformanceStatus(m))

NextDa ==
  \/ AnalyzeCpuPerformance
  \/ AnalyzeMemoryPressure
  \/ AnalyzeLatency
  \/ GetPerformanceStatus

\* ------------------------------------------------------ the CPU view
MaxCores == 2   \* largest number of cores (and of frequency entries) explored

\* an optional number: a field or array entry that may be undefined
Absent == [value |-> 0, present |-> FALSE]
Present(v) == [value |-> v, present |-> TRUE]

\* arr[index] of a JavaScript array: undefined beyond its length
At(arr, i) == IF i <= Len(arr) THEN Present(arr[i]) ELSE Absent

\* the sequences over S of length at most n
SeqsUpTo(S, n) == UNION {[1..k -> S] : k \in 0..n}

\* the triples of load averages explored, in hundredths
LoadAverages == [1..3 -> {0, 150}]

\* the HighPerfCpuMetrics explored: per-core usages, per-core frequencies
\* (possibly fewer than cores), load averages and the optional temperature
CpuViewMetrics ==
  [per_core_usage : SeqsUpTo({50}, MaxCores),
   frequency_mhz : SeqsUpTo({0, 2400}, MaxCores),
   load_average : LoadAverages,
   temperature : {Absent, Present(0), Present(45)}]

\* x || 0: every falsy operand, undefined and 0 alike, becomes 0
OrZero(x) == IF x.present /\ x.value # 0 THEN x ELSE Present(0)

\* processedData: one entry per core with its usage and frequency, the load
\* averages and the temperature passed through
ProcessedData(m) ==
  [temperature |-> m.temperature,
   coreData |-> [i \in 1..Len(m.per_core_usage) |->
                   [core |-> i,
                    usage |-> m.per_core_usage[i],
                    frequency |-> OrZero(At(m.frequency_mhz, i))]],
   loadAverage |-> m.load_average]

\* v.toFixed(2) of a number given in hundredths: integer part and two digits
ToFixed2(h) == <<h \div 100, h % 100>>

\* formatLoadAverage(loadAvg): "Not available" when every entry is 0, else the
\* entries with two decimals joined by ", "
FormatLoadAverage(loadAvg) ==
  IF \A i \in 1..3 : loadAvg[i] = 0
    THEN [text |-> "Not available", entries |-> <<>>]
    ELSE [text |-> "joined", entries |-> [i \in 1..3 |-> ToFixed2(loadAvg[i])]]

\* a render of HighPerfCpuMonitor computes processedData
ProcessData ==
  \E m \in CpuViewMetrics : DaCall("processedData", m, ProcessedData(m))

\* a render of HighPerfCpuMonitor formats the load averages
ShowLoadAverage ==
  \E loadAvg \in LoadAverages :
    DaCall("formatLoadAverage", loadAvg, FormatLoadAverage(loadAvg))

NextCpuView ==
  \/ ProcessData
  \/ ShowLoadAverage

\* ------------------------------------------------------ the services
\* `undefined` for a callback or timer field, and the value of a set one
Unset == "undefined"
IsSet == "set"

\* HighPerfMonitoringService and KernelMonitoringService after construction;
\* KernelMonitor: useState<KernelMetrics | null>(null)
SvcInit ==
  /\ isRunning = FALSE
  /\ metricsCallback = Unset
  /\ isListening = FALSE
  /\ kernelCallback = Unset
  /\ intervalId = Unset
  /\ kernelMetrics = NoMetrics
  /\ svcStopped = {}

SvcParked == SvcInit

\* HighPerfMonitoringService.startMonitoring(callback): returns at once when
\* running; stores the callback, then invokes the backend command, which
\* succeeds (ok) or throws and leaves isRunning false
StartMonitoring ==
  /\ ~isRunning
  /\ metricsCallback' = IsSet
  /\ \E ok \in BOOLEAN : isRunning' = ok
  /\ UNCHANGED <<isListening, kernelCallback, intervalId, kernelMetrics, svcStopped>>
  /\ UNCHANGED <<bufVars, clockVars, thrVars, debVars, hookVars, readerVars, pmVars,
                 daVars, uiVars>>

\* HighPerfMonitoringService.stopMonitoring(): returns at once when not
\* running; invokes the backend command and, when that succeeds, resets the
\* flag and the callback; it touches nothing else
StopMonitoring ==
  /\ isRunning
  /\ \E ok \in BOOLEAN :
       IF ok THEN /\ isRunning' = FALSE
                  /\ metricsCallback' = Unset
                  /\ svcStopped' = svcStopped \cup {"HighPerfMonitoringService"}
             ELSE UNCHANGED <<isRunning, metricsCallback, svcStopped>>
  /\ UNCHANGED <<isListening, kernelCallback, intervalId, kernelMetrics>>
  /\ UNCHANGED <<bufVars, clockVars, thrVars, debVars, hookVars, readerVars, pmVars,
                 daVars, uiVars>>

\* KernelMonitoringService.startMonitoring(callback), called by KernelMonitor
\* with newMetrics => setMetrics(newMetrics)
KernelStartMonitoring ==
  /\ ~isListening
  /\ kernelCallback' = IsSet
  /\ intervalId' = IsSet
  /\ isListening' = TRUE
  /\ UNCHANGED <<isRunning, metricsCallback, kernelMetrics, svcStopped>>
  /\ UNCHANGED <<bufVars, clockVars, thrVars, debVars, hookVars, readerVars, pmVars,
                 daVars, uiVars>>

\* the interval callback: this.metricsCallback?.(mockMetrics), which stores
\* the snapshot in the component
KernelTick ==
  /\ intervalId = IsSet
  /\ IF kernelCallback = IsSet
       THEN kernelMetrics' \in LatencySnapshots
       ELSE kernelMetrics' = kernelMetrics
  /\ UNCHANGED <<isRunning, metricsCallback, isListening, kernelCallback, intervalId,
                 svcStopped>>
  /\ UNCHANGED <<bufVars, clockVars, thrVars, debVars, hookVars, readerVars, pmVars,
                 daVars, uiVars>>

\* KernelMonitoringService.stopMonitoring(): clears the interval, the flag
\* and the callback; it touches nothing else
KernelStopMonitoring ==
  /\ isListening
  /\ intervalId' = Unset
  /\ isListening' = FALSE
  /\ kernelCallback' = Unset
  /\ svcStopped' = svcStopped \cup {"KernelMonitoringService"}
  /\ UNCHANGED <<isRunning, metricsCallback, kernelMetrics>>
  /\ UNCHANGED <<bufVars, clockVars, thrVars, debVars, hookVars, readerVars, pmVars,
                 daVars, uiVars>>

\* ------------------------------------------------------ the App component
MaxToggles == 3   \* number of activations of the monitoring toggle explored

\* the backend commands App invokes
AppCommands == {"get_system_info", "start_monitoring", "stop_monitoring"}

\* the values of the error state: null and the two messages
NoError == "null"
InfoError == "Failed to load system info"
StartError == "Failed to start monitoring"

\* App before it is mounted: useState(null), useState(false), no command
AppInit ==
  /\ appLife = "new"
  /\ isMonitoring = FALSE
  /\ error = NoError
  /\ systemInfo = FALSE
  /\ appMetrics = 0
  /\ appSubscribed = FALSE
  /\ appPending = [c \in AppCommands |-> 0]
  /\ appToggles = 0
  /\ appLastOk = "none"
  /\ appInfoFailed = FALSE

AppParked == AppInit

\* invoke(command): one more pending invocation of the command
AppInvoked(pending, command) == [pending EXCEPT ![command] = @ + 1]

\* the mount effect: loadSystemInfo(), startMonitoring(), listen(...)
AppMount ==
  /\ appLife = "new"
  /\ appLife' = "mounted"
  /\ appPending' = AppInvoked(AppInvoked(appPending, "get_system_info"), "start_monitoring")
  /\ appSubscribed' = TRUE
  /\ UNCHANGED <<isMonitoring, error, systemInfo, appMetrics, appToggles, appLastOk,
                 appInfoFailed>>
  /\ UNCHANGED <<bufVars, clockVars, thrVars, debVars, hookVars, readerVars, pmVars,
                 daVars, svcVars, hpVars, wrapVars>>

\* mutant of AppToggleCommand: the toggle always starts
AppToggleCommandStart(monitoring) == "start_monitoring"

\* onToggleMonitoring={isMonitoring ? stopMonitoring : startMonitoring}
AppToggleCommand(monitoring) ==
  IF monitoring THEN "stop_monitoring" ELSE "start_monitoring"

\* the user activates the toggle: the handler of the last render invokes its
\* command and awaits it
AppToggle ==
  /\ appLife = "mounted"
  /\ appToggles < MaxToggles
  /\ appToggles' = appToggles + 1
  /\ appPending' = AppInvoked(appPending, AppToggleCommand(isMonitoring))
  /\ UNCHANGED <<appLife, isMonitoring, error, systemInfo, appMetrics, appSubscribed,
                 appLastOk, appInfoFailed>>
  /\ UNCHANGED <<bufVars, clockVars, thrVars, debVars, hookVars, readerVars, pmVars,
                 daVars, svcVars, hpVars, wrapVars>>

\* the state updates after an awaited command has settled: the try branch
\* when it resolved (ok), the catch branch when it rejected
AppSettled(command, ok) ==
  /\ systemInfo' = (IF command = "get_system_info" /\ ok THEN TRUE ELSE systemInfo)
  /\ isMonitoring' = (IF command = "start_monitoring" /\ ok THEN TRUE
                      ELSE IF command = "stop_monitoring" /\ ok THEN FALSE
                      ELSE isMonitoring)
  /\ error' = (IF command = "get_system_info" /\ ~ok THEN InfoError
               ELSE IF command = "start_monitoring" /\ ok THEN NoError
               ELSE IF command = "start_monitoring" /\ ~ok THEN StartError
               ELSE error)
  /\ appLastOk' = (IF ok /\ command # "get_system_info" THEN command ELSE appLastOk)

\* a pending command resolves or rejects; the state of an unmounted
\* component is not updated any more
AppSettle ==
  \E command \in AppCommands : \E ok \in BOOLEAN :
    /\ appPending[command] > 0
    /\ appPending' = [appPending EXCEPT ![command] = @ - 1]
    /\ appInfoFailed' = (appInfoFailed \/ (command = "get_system_info" /\ ~ok))
    /\ IF appLife = "mounted"
         THEN AppSettled(command, ok)
         ELSE UNCHANGED <<systemInfo, isMonitoring, error, appLastOk>>
    /\ UNCHANGED <<appLife, appMetrics, appSubscribed, appToggles>>
    /\ UNCHANGED <<bufVars, clockVars, thrVars, debVars, hookVars, readerVars, pmVars,
                   daVars, svcVars, hpVars, wrapVars>>

\* a 'system-metrics' event: setMetrics(event.payload)
AppEvent ==
  /\ appSubscribed
  /\ appLife = "mounted"
  /\ appMetrics' = 1 - appMetrics
  /\ UNCHANGED <<appLife, isMonitoring, error, systemInfo, appSubscribed, appPending,
                 appToggles, appLastOk, appInfoFailed>>
  /\ UNCHANGED <<bufVars, clockVars, thrVars, debVars, hookVars, readerVars, pmVars,
                 daVars, svcVars, hpVars, wrapVars>>

\* the cleanup of the mount effect: unsubscribe and stopMonitoring()
AppUnmount ==
  /\ appLife = "mounted"
  /\ appLife' = "unmounted"
  /\ appSubscribed' = FALSE
  /\ appPending' = AppInvoked(appPending, "stop_monitoring")
  /\ UNCHANGED <<isMonitoring, error, systemInfo, appMetrics, appToggles, appLastOk,
                 appInfoFailed>>
  /\ UNCHANGED <<bufVars, clockVars, thrVars, debVars, hookVars, readerVars, pmVars,
                 daVars, svcVars, hpVars, wrapVars>>

NextApp ==
  \/ AppMount
  \/ AppToggle
  \/ AppSettle
  \/ AppEvent
  \/ AppUnmount

\* ------------------------------------- HighPerfMonitoringService in detail
MaxApiCalls == 3   \* number of calls of startMonitoring/stopMonitoring explored
MaxEvents == 2     \* number of invocations of the metrics callback explored

\* the callbacks passed to startMonitoring
HpCallbacks == {"cb1", "cb2"}

\* the service after its constructor: setupEventListeners() has called
\* listen(...) and awaits it
HpInit ==
  /\ hpListener = "pending"
  /\ unsubscribe = Unset
  /\ hpStartPending = 0
  /\ hpStopPending = 0
  /\ hpDestroyed = FALSE
  /\ hpApiCalls = 0
  /\ hpStartIssued = 0
  /\ hpDelivered = 0

HpParked == HpInit

\* what the new steps of the service leave alone
HpFrame ==
  /\ UNCHANGED <<isListening, kernelCallback, intervalId, kernelMetrics>>
  /\ UNCHANGED <<bufVars, clockVars, thrVars, debVars, hookVars, readerVars, pmVars,
                 daVars, appVars, wrapVars>>

\* the awaited listen(...) settles: on success the subscription is active and
\* the unsubscribe function is stored, on failure there is no subscription
HpListenSettle ==
  /\ hpListener = "pending"
  /\ \E ok \in BOOLEAN :
       IF ok THEN hpListener' = "active" /\ unsubscribe' = IsSet
             ELSE hpListener' = "failed" /\ unsubscribe' = unsubscribe
  /\ UNCHANGED <<isRunning, metricsCallback, svcStopped, hpStartPending, hpStopPending,
                 hpDestroyed, hpApiCalls, hpStartIssued, hpDelivered>>
  /\ HpFrame

\* the condition under which the listener passes an event to the callback:
\* this.metricsCallback && event.payload
HpPassesEvent(callback, payload) == callback # Unset /\ payload

\* a 'high-perf-metrics' event reaches the listener, with or without payload
HpEvent ==
  /\ hpListener = "active"
  /\ hpDelivered < MaxEvents
  /\ \E payload \in BOOLEAN :
       hpDelivered' = (IF HpPassesEvent(metricsCallback, payload)
                         THEN hpDelivered + 1 ELSE hpDelivered)
  /\ UNCHANGED <<isRunning, metricsCallback, svcStopped, hpListener, unsubscribe,
                 hpStartPending, hpStopPending, hpDestroyed, hpApiCalls, hpStartIssued>>
  /\ HpFrame

\* startMonitoring(callback) up to its await: returns at once when running,
\* else stores the callback and invokes the start command
HpStartCall ==
  /\ ~hpDestroyed
  /\ hpApiCalls < MaxApiCalls
  /\ hpApiCalls' = hpApiCalls + 1
  /\ IF isRunning
       THEN UNCHANGED <<metricsCallback, hpStartPending, hpStartIssued>>
       ELSE /\ \E callback \in HpCallbacks : metricsCallback' = callback
            /\ hpStartPending' = hpStartPending + 1
            /\ hpStartIssued' = hpStartIssued + 1
  /\ UNCHANGED <<isRunning, svcStopped, hpListener, unsubscribe, hpStopPending,
                 hpDestroyed, hpDelivered>>
  /\ HpFrame

\* an awaited start command settles: isRunning = true when it resolved; when
\* it rejected the error is rethrown and nothing is reset
HpStartSettle ==
  /\ hpStartPending > 0
  /\ hpStartPending' = hpStartPending - 1
  /\ \E ok \in BOOLEAN : isRunning' = (IF ok THEN TRUE ELSE isRunning)
  /\ UNCHANGED <<metricsCallback, svcStopped, hpListener, unsubscribe, hpStopPending,
                 hpDestroyed, hpApiCalls, hpStartIssued, hpDelivered>>
  /\ HpFrame

\* the stop command of stopMonitoring(): none when not running
HpStopIssued(running, pending) == IF running THEN pending + 1 ELSE pending

\* stopMonitoring() up to its await
HpStopCall ==
  /\ ~hpDestroyed
  /\ hpApiCalls < MaxApiCalls
  /\ hpApiCalls' = hpApiCalls + 1
  /\ hpStopPending' = HpStopIssued(isRunning, hpStopPending)
  /\ UNCHANGED <<isRunning, metricsCallback, svcStopped, hpListener, unsubscribe,
                 hpStartPending, hpDestroyed, hpStartIssued, hpDelivered>>
  /\ HpFrame

\* an awaited stop command settles: the flag and the callback are reset when
\* it resolved, nothing changes when it rejected
HpStopSettle ==
  /\ hpStopPending > 0
  /\ hpStopPending' = hpStopPending - 1
  /\ \E ok \in BOOLEAN :
       IF ok THEN /\ isRunning' = FALSE
                  /\ metricsCallback' = Unset
                  /\ svcStopped' = svcStopped \cup {"HighPerfMonitoringService"}
             ELSE UNCHANGED <<isRunning, metricsCallback, svcStopped>>
  /\ UNCHANGED <<hpListener, unsubscribe, hpStartPending, hpDestroyed, hpApiCalls,
                 hpStartIssued, hpDelivered>>
  /\ HpFrame

\* destroy(): stopMonitoring() without awaiting it, then unsubscribe() if the
\* unsubscribe function is stored already
HpDestroy ==
  /\ ~hpDestroyed
  /\ hpDestroyed' = TRUE
  /\ hpStopPending' = HpStopIssued(isRunning, hpStopPending)
  /\ hpListener' = (IF unsubscribe # Unset THEN "removed" ELSE hpListener)
  /\ UNCHANGED <<isRunning, metricsCallback, svcStopped, unsubscribe, hpStartPending,
                 hpApiCalls, hpStartIssued, hpDelivered>>
  /\ HpFrame

NextHp ==
  \/ HpListenSettle
  \/ HpEvent
  \/ HpStartCall
  \/ HpStartSettle
  \/ HpStopCall
  \/ HpStopSettle
  \/ HpDestroy

\* --------------------------------------------- the AppWrapper component
MaxUpdates == 2   \* number of setMetrics calls of AppWrapper explored

\* further values of the error state of AppWrapper
TimeoutError == "Initialization timed out. Please refresh the page."
InitError == "Initialization error"

\* AppWrapper before it is mounted
WrapInit ==
  /\ wrapLife = "new"
  /\ wrapInit = "idle"
  /\ wrapMock = TRUE
  /\ wrapTimeout = FALSE
  /\ wrapPoll = FALSE
  /\ wrapListener = FALSE
  /\ wrapEffectCleanup = Unset
  /\ wrapStopInvoked = FALSE
  /\ wrapLoading = TRUE
  /\ wrapError = NoError
  /\ wrapInfo = FALSE
  /\ wrapMonitoring = FALSE
  /\ wrapUpdates = 0

WrapParked == WrapInit

\* what the steps of AppWrapper leave alone
WrapFrame ==
  UNCHANGED <<bufVars, clockVars, thrVars, debVars, hookVars, readerVars, pmVars,
              daVars, svcVars, appVars, hpVars>>

\* what the effect returns to React: it calls init() and returns nothing; the
\* cleanup function init() resolves to is dropped
WrapEffectReturn == Unset

\* the mount effect: init() arms the 15 s timeout and starts to wait
WrapMount ==
  /\ wrapLife = "new"
  /\ wrapLife' = "mounted"
  /\ wrapInit' = "wait"
  /\ wrapTimeout' = TRUE
  /\ wrapEffectCleanup' = WrapEffectReturn
  /\ UNCHANGED <<wrapMock, wrapPoll, wrapListener, wrapStopInvoked, wrapLoading,
                 wrapError, wrapInfo, wrapMonitoring, wrapUpdates>>
  /\ WrapFrame

\* init() leaves through its outer catch and finally
WrapThrown ==
  /\ wrapInit' = "failed"
  /\ wrapError' = InitError
  /\ wrapLoading' = FALSE

\* init() leaves through a `return` inside an inner catch, and finally
WrapReturned(message) ==
  /\ wrapInit' = "failed"
  /\ wrapError' = message
  /\ wrapLoading' = FALSE

\* after the 1 s wait: detectTauriEnvironment(), getTauriInvoke() and
\* getTauriListen(); then get_system_info is invoked
WrapDetect ==
  /\ wrapInit = "wait"
  /\ \E isTauri \in BOOLEAN : \E available \in BOOLEAN :
       /\ wrapMock' = ~isTauri
       /\ IF isTauri /\ ~available
            THEN WrapThrown
            ELSE wrapInit' = "info" /\ UNCHANGED <<wrapError, wrapLoading>>
  /\ UNCHANGED <<wrapLife, wrapTimeout, wrapPoll, wrapListener, wrapEffectCleanup,
                 wrapStopInvoked, wrapInfo, wrapMonitoring, wrapUpdates>>
  /\ WrapFrame

\* get_system_info settles; on failure the Tauri branch returns, the mock
\* branch goes on
WrapInfoSettle ==
  /\ wrapInit = "info"
  /\ \E ok \in BOOLEAN :
       IF ok THEN /\ wrapInfo' = TRUE
                  /\ wrapInit' = "start"
                  /\ UNCHANGED <<wrapError, wrapLoading>>
       ELSE IF wrapMock THEN /\ wrapError' = InfoError
                             /\ wrapInit' = "start"
                             /\ UNCHANGED <<wrapInfo, wrapLoading>>
       ELSE WrapReturned(InfoError) /\ UNCHANGED wrapInfo
  /\ UNCHANGED <<wrapLife, wrapMock, wrapTimeout, wrapPoll, wrapListener,
                 wrapEffectCleanup, wrapStopInvoked, wrapMonitoring, wrapUpdates>>
  /\ WrapFrame

\* start_monitoring settles; on failure the Tauri branch returns, the mock
\* branch goes on
WrapStartSettle ==
  /\ wrapInit = "start"
  /\ \E ok \in BOOLEAN :
       IF ok THEN /\ wrapMonitoring' = TRUE
                  /\ wrapInit' = "listen"
                  /\ UNCHANGED <<wrapError, wrapLoading>>
       ELSE IF wrapMock THEN /\ wrapError' = StartError
                             /\ wrapInit' = "listen"
                             /\ UNCHANGED <<wrapMonitoring, wrapLoading>>
       ELSE WrapReturned(StartError) /\ UNCHANGED wrapMonitoring
  /\ UNCHANGED <<wrapLife, wrapMock, wrapTimeout, wrapPoll, wrapListener,
                 wrapEffectCleanup, wrapStopInvoked, wrapInfo, wrapUpdates>>
  /\ WrapFrame

\* listen('system-metrics', ...) settles: with the Tauri backend the poll
\* interval is set up whether or not the listener was registered; the init
\* timeout is cleared and init() completes
WrapListenSettle ==
  /\ wrapInit = "listen"
  /\ \E ok \in BOOLEAN :
       IF wrapMock /\ ~ok
       THEN WrapThrown /\ UNCHANGED <<wrapListener, wrapPoll, wrapTimeout>>
       ELSE /\ wrapListener' = ok
            /\ wrapPoll' = ~wrapMock
            /\ wrapTimeout' = FALSE
            /\ wrapInit' = "done"
            /\ wrapError' = NoError
            /\ wrapLoading' = FALSE
  /\ UNCHANGED <<wrapLife, wrapMock, wrapEffectCleanup, wrapStopInvoked, wrapInfo,
                 wrapMonitoring, wrapUpdates>>
  /\ WrapFrame

\* the init timeout fires after 15 s
WrapTimeoutFire ==
  /\ wrapTimeout
  /\ wrapTimeout' = FALSE
  /\ wrapLoading' = FALSE
  /\ wrapError' = TimeoutError
  /\ UNCHANGED <<wrapLife, wrapInit, wrapMock, wrapPoll, wrapListener,
                 wrapEffectCleanup, wrapStopInvoked, wrapInfo, wrapMonitoring,
                 wrapUpdates>>
  /\ WrapFrame

\* a 'system-metrics' event reaches the listener: setMetrics(event.payload)
WrapEvent ==
  /\ wrapListener
  /\ wrapUpdates < MaxUpdates
  /\ wrapUpdates' = wrapUpdates + 1
  /\ UNCHANGED <<wrapLife, wrapInit, wrapMock, wrapTimeout, wrapPoll, wrapListener,
                 wrapEffectCleanup, wrapStopInvoked, wrapLoading, wrapError, wrapInfo,
                 wrapMonitoring>>
  /\ WrapFrame

\* the poll interval fires: get_current_metrics, then setMetrics when the
\* command resolved
WrapPollFire ==
  /\ wrapPoll
  /\ wrapUpdates < MaxUpdates
  /\ \E ok \in BOOLEAN : wrapUpdates' = (IF ok THEN wrapUpdates + 1 ELSE wrapUpdates)
  /\ UNCHANGED <<wrapLife, wrapInit, wrapMock, wrapTimeout, wrapPoll, wrapListener,
                 wrapEffectCleanup, wrapStopInvoked, wrapLoading, wrapError, wrapInfo,
                 wrapMonitoring>>
  /\ WrapFrame

\* unmount: React runs the cleanup function the effect returned, if any:
\* clearInterval(pollInterval), unlisten(), invoke('stop_monitoring')
WrapUnmount ==
  /\ wrapLife = "mounted"
  /\ wrapLife' = "unmounted"
  /\ IF wrapEffectCleanup # Unset /\ wrapInit = "done"
       THEN /\ wrapPoll' = FALSE
            /\ wrapListener' = FALSE
            /\ wrapStopInvoked' = TRUE
       ELSE UNCHANGED <<wrapPoll, wrapListener, wrapStopInvoked>>
  /\ UNCHANGED <<wrapInit, wrapMock, wrapTimeout, wrapEffectCleanup, wrapLoading,
                 wrapError, wrapInfo, wrapMonitoring, wrapUpdates>>
  /\ WrapFrame

NextWrap ==
  \/ WrapMount
  \/ WrapDetect
  \/ WrapInfoSettle
  \/ WrapStartSettle
  \/ WrapListenSettle
  \/ WrapTimeoutFire
  \/ WrapEvent
  \/ WrapPollFire
  \/ WrapUnmount

UiParked == AppParked /\ HpParked /\ WrapParked

MoreParked == ReaderParked /\ PmParked /\ DaParked /\ SvcParked /\ UiParked

MAX_HISTORY_POINTS == 60

MaxSamples == 66   \* number of renders of useMetricsHistory explored
MaxRepeats == 1    \* number of renders that repeat the previous currentValue
MaxSnapRenders == 3  \* number of renders explored while a reader holds an array

\* toLocaleTimeString with minute and second only: the label "mm:ss" of the
\* second t
TimeStr(t) == <<(t \div 60) % 60, t % 60>>

\* mutant of SliceLast: nothing is cut off
SliceNone(s, n) == s

\* mutant of SliceLast: the first n elements are kept
SliceFirst(s, n) == IF Len(s) <= n THEN s ELSE SubSeq(s, 1, n)

\* Array.prototype.slice(-n): the last n elements, all of them if there are
\* no more than n
SliceLast(s, n) == IF Len(s) <= n THEN s ELSE SubSeq(s, Len(s) - n + 1, Len(s))

\* mutant of HsNewArray: the effect changes the array in place (push, shift)
HsSameArray(obj) == obj

\* [...historyRef.current, point].slice(-MAX_HISTORY_POINTS) is a new array
\* object, which the effect stores in historyRef.current
HsNewArray(obj) == obj + 1

\* `return historyRef.current`: the render hands out the array that the ref
\* refers to when the hook is called, before the effect of this render runs
HsRead == [held |-> TRUE, obj |-> hsObj, taken |-> historyRef]

\* the present content of the array the reader of the hook holds
HsView == IF hsSnap.obj = hsObj THEN historyRef ELSE hsOld

\* the effect body: a point labelled with the time of the render is added at
\* the end and the array is cut to its last MAX_HISTORY_POINTS points
HsEffect(v) ==
  LET point == [time |-> TimeStr(hsRenders + 1), value |-> v]
  IN /\ historyRef' = SliceLast(Append(historyRef, point), MAX_HISTORY_POINTS)
     /\ hsAppended' = Append(hsAppended, point)
     /\ hsObj' = HsNewArray(hsObj)
     /\ hsOld' = IF hsSnap'.held /\ hsSnap'.obj = hsObj /\ hsObj' # hsObj
                 THEN historyRef
                 ELSE hsOld

\* one render with the sample v; renders are one second apart. The effect
\* runs after the first render and after a render whose currentValue differs
\* from the previous one (the effect's dependency list is [currentValue])
HsRender(v) ==
  /\ hsRenders < MaxSamples
  /\ hsRenders' = hsRenders + 1
  /\ currentValue' = v
  /\ IF hsRenders = 0 \/ v # currentValue
     THEN HsEffect(v)
     ELSE UNCHANGED <<historyRef, hsAppended, hsObj, hsOld>>
  /\ UNCHANGED <<bufVars, moreVars, clockVars, thrVars, debVars, tdVars>>

\* a render with a sample that differs from the previous one
HsNewValue ==
  /\ hsSnap' = hsSnap
  /\ HsRender(hsRenders + 1)
  /\ UNCHANGED hsRepeats

\* the same, by a reader that keeps the array the hook returns
HsNewValueRead ==
  /\ hsSnap' = HsRead
  /\ HsRender(hsRenders + 1)
  /\ UNCHANGED hsRepeats

\* a render with the same sample as the previous render
HsSameValue ==
  /\ hsSnap' = hsSnap
  /\ hsRenders > 0
  /\ hsRepeats < MaxRepeats
  /\ hsRepeats' = hsRepeats + 1
  /\ HsRender(currentValue)

NextHist ==
  \/ HsNewValue
  \/ HsSameValue

NextThr ==
  \/ ThrCall
  \/ ThrTimerFire
  \/ Tick

NextDeb ==
  \/ DebCall
  \/ DebTimerFire
  \/ Tick

NextRate ==
  \/ ThrCall
  \/ ThrTimerFire
  \/ DebCall
  \/ DebTimerFire
  \/ Tick

\* a CircularBuffer that is not used
BufParked == BufInit /\ capacity = 1

\* the clock is not used
ClockParked == now = StartReal

\* a wall clock, as read by Date.now(): later than every delay
ClockReal == now = StartReal

\* any clock value, 0 included (a clock that starts at the epoch)
ClockAny == now \in 0..StartReal

InitBuf == BufInit /\ ClockParked /\ ThrParked /\ DebParked /\ HooksParked /\ MoreParked

SpecBuf == InitBuf /\ [][NextBuf]_vars

\* a throttled function created under a wall clock
InitThr == BufParked /\ ClockReal /\ ThrInit /\ DebParked /\ HooksParked /\ MoreParked

SpecThr == InitThr /\ [][NextThr]_vars

\* a throttled function created under any clock value
InitThrAnyClock == BufParked /\ ClockAny /\ ThrInit /\ DebParked /\ HooksParked /\ MoreParked

SpecThrAnyClock == InitThrAnyClock /\ [][NextThr]_vars

\* a debounced function created under a wall clock
InitDeb == BufParked /\ ClockReal /\ ThrParked /\ DebInit /\ HooksParked /\ MoreParked

SpecDeb == InitDeb /\ [][NextDeb]_vars

\* a debounced function under a wall clock, timers firing exactly when due
SpecDebExact == InitDeb /\ [][NextDebExact]_vars

\* the scripted throttle run
InitThrScn == BufParked /\ now = 0 /\ ThrScnInit /\ DebParked /\ HooksParked /\ MoreParked

SpecThrScn == InitThrScn /\ [][NextThrScn]_vars

\* a useThrottledMetrics hook under a wall clock
InitTd == BufParked /\ ClockReal /\ ThrParked /\ DebParked /\ TdInit /\ HsParked /\ MoreParked

SpecTd == InitTd /\ [][NextTd]_vars

\* the same, where the clock keeps advancing and a due timer eventually fires
SpecTdFair == SpecTd /\ WF_vars(TdTimerFire) /\ WF_vars(TdTick)

\* a useMetricsHistory hook
InitHist == BufParked /\ ClockParked /\ ThrParked /\ DebParked /\ TdParked /\ HsInit /\ MoreParked

SpecHist == InitHist /\ [][NextHist]_vars

\* a CircularBuffer and a useMetricsHistory hook, each with a reader that
\* holds on to an array it was given
NextSnap ==
  \/ Push
  \/ Pop
  \/ Clear
  \/ ToArrayKeep
  \/ hsRenders < MaxSnapRenders /\ HsNewValue
  \/ hsRenders < MaxSnapRenders /\ HsNewValueRead

InitSnap == BufInit /\ ClockParked /\ ThrParked /\ DebParked /\ TdParked /\ HsInit
            /\ ReaderInit /\ PmParked /\ DaParked /\ SvcParked /\ UiParked

SpecSnap == InitSnap /\ [][NextSnap]_vars

\* a PerformanceMonitor
InitPm == BufParked /\ ClockParked /\ ThrParked /\ DebParked /\ HooksParked
          /\ ReaderParked /\ PmInit /\ DaParked /\ SvcParked /\ UiParked

SpecPm == InitPm /\ [][NextPm]_vars

SpecPmLife == InitPm /\ [][NextPmLife]_vars

\* the analysis functions applied to snapshots
InitDa == BufParked /\ ClockParked /\ ThrParked /\ DebParked /\ HooksParked
          /\ ReaderParked /\ PmParked /\ DaInit /\ SvcParked /\ UiParked

SpecDa == InitDa /\ [][NextDa]_vars

\* the App component with its backend commands
InitApp == BufParked /\ ClockParked /\ ThrParked /\ DebParked /\ HooksParked
           /\ ReaderParked /\ PmParked /\ DaParked /\ SvcParked /\ AppInit /\ HpParked
           /\ WrapParked

SpecApp == InitApp /\ [][NextApp]_vars

\* a HighPerfMonitoringService with its commands and events in flight
InitHp == BufParked /\ ClockParked /\ ThrParked /\ DebParked /\ HooksParked
          /\ ReaderParked /\ PmParked /\ DaParked /\ SvcInit /\ AppParked /\ HpInit
          /\ WrapParked

SpecHp == InitHp /\ [][NextHp]_vars

\* the AppWrapper component from mount to unmount
InitWrap == BufParked /\ ClockParked /\ ThrParked /\ DebParked /\ HooksParked
            /\ ReaderParked /\ PmParked /\ DaParked /\ SvcParked /\ AppParked
            /\ HpParked /\ WrapInit

SpecWrap == InitWrap /\ [][NextWrap]_vars

\* the data processing of the HighPerfCpuMonitor component
SpecCpuView == InitDa /\ [][NextCpuView]_vars

MaxLifeData == 2   \* values stored per container where the services are explored

\* the services started and stopped while a CircularBuffer, a
\* useMetricsHistory hook and the PerformanceMonitor receive data
NextLife ==
  \/ StartMonitoring
  \/ StopMonitoring
  \/ KernelStartMonitoring
  \/ KernelTick
  \/ KernelStopMonitoring
  \/ nPush < MaxLifeData /\ Push
  \/ hsRenders < MaxLifeData /\ HsNewValue
  \/ \E name \in PmNames : pmCount[name] < MaxLifeData /\ PmRecordMetric(name)

InitLife == BufInit /\ ClockParked /\ ThrParked /\ DebParked /\ TdParked /\ HsInit
            /\ ReaderParked /\ PmInit /\ DaParked /\ SvcInit /\ UiParked

SpecLife == InitLife /\ [][NextLife]_vars

\* a throttled and a debounced function on the same event loop
InitRate == BufParked /\ ClockReal /\ ThrInit /\ DebInit /\ HooksParked /\ MoreParked

SpecRate == InitRate /\ [][NextRate]_vars

\* ------------------------------------------------ CircularBuffer claims
bufFields == <<buffer, head, tail, size>>

\* C1: in every reachable state of a CircularBuffer of capacity C,
\* 0 <= getSize() <= C, and getCapacity() never changes.
C1_SizeWithinCapacity ==
  /\ [](0 <= GetSize /\ GetSize <= GetCapacity)
  /\ [][GetCapacity' = GetCapacity]_vars

\* C1 witness: a full buffer whose indices have wrapped, after a clear
C1_Witness == size = capacity /\ capacity > 1 /\ tail > 0 /\ cleared

\* C2: push on a buffer that already holds C items returns false and leaves
\* size, head, tail and every stored item (hence toArray()) unchanged.
C2_PushFullRejected ==
  [][(bufOp' = "push" /\ GetSize = GetCapacity)
       => /\ bufRet'.ok = FALSE
          /\ bufFields' = bufFields
          /\ ToArray' = ToArray]_vars

\* C2 witness: a push was just rejected by a full, wrapped buffer
C2_Witness ==
  /\ bufOp = "push"
  /\ bufRet.ok = FALSE
  /\ size = capacity
  /\ tail > 0

\* C3: the buffer is a bounded FIFO queue: getSize() is successful pushes
\* minus successful pops since the last clear, toArray() is the abstract
\* queue content oldest first, and pop() returns the abstract queue's head.
C3_FifoRefinement ==
  /\ [](GetSize = nPush - nPop /\ GetSize = Len(fifo) /\ ToArray = fifo)
  /\ [][(bufOp' = "pop" /\ fifo # <<>>) => bufRet'.item = Head(fifo)]_vars
  /\ [][bufOp' = "toArray" => bufRet'.arr = fifo]_vars

\* C3 witness: a pop returned an item from a buffer whose content wraps
\* around the end of the array (head before tail)
C3_Witness ==
  /\ bufOp = "pop"
  /\ bufRet.item # Undefined
  /\ head < tail
  /\ size >= 1
  /\ nPop >= 2

\* C4: pop() and peek() on an empty buffer return undefined and change no
\* field; peek() on a non-empty buffer changes no field and returns the item
\* the next pop() returns; toArray() changes no field.
C4_EmptyAndPeek ==
  /\ [][(bufOp' \in {"pop", "peek"} /\ GetSize = 0)
          => (bufRet'.item = Undefined /\ bufFields' = bufFields)]_vars
  /\ [][bufOp' \in {"peek", "toArray"} => bufFields' = bufFields]_vars
  /\ [][(bufOp' = "peek" /\ GetSize > 0) => bufRet'.item # Undefined]_vars
  /\ [][(bufOp = "peek" /\ bufOp' = "pop") => bufRet'.item = bufRet.item]_vars

\* C4 witness: pop on an empty buffer whose tail slot still holds a stale
\* item signalled empty
C4_Witness ==
  /\ bufOp = "pop"
  /\ size = 0
  /\ buffer[tail] # Undefined
  /\ bufRet.item = Undefined

\* every item of a returned array was pushed after the last clear, and the
\* array is in insertion order
ArrFresh(arr) ==
  /\ \A i \in 1..Len(arr) : arr[i] > clearMark
  /\ \A i \in 1..Len(arr) : \A j \in 1..Len(arr) : i < j => arr[i] < arr[j]

\* C5: clear() leaves the buffer empty in any state; afterwards the buffer
\* accepts exactly C pushes, and pop()/peek()/toArray() return only items
\* pushed after the clear, in insertion order.
C5_ClearResets ==
  /\ [][bufOp' = "clear"
          => (GetSize' = 0 /\ ToArray' = <<>> /\ PeekValue' = Undefined)]_vars
  /\ [][(bufOp' = "push" /\ cleared /\ nPop = 0)
          => (bufRet'.ok <=> nPush < GetCapacity)]_vars
  /\ []((cleared /\ bufOp \in {"pop", "peek"} /\ bufRet.item # Undefined)
          => bufRet.item > clearMark)
  /\ []((cleared /\ bufOp = "toArray") => ArrFresh(bufRet.arr))

\* C5 witness: after a clear of a buffer that held items, C pushes were
\* accepted and a pop returned the first of them
C5_Witness ==
  /\ cleared
  /\ clearMark > 0
  /\ bufOp = "pop"
  /\ nPush = capacity
  /\ bufRet.item = clearMark + 1

\* ------------------------------------------------ throttle / debounce claims
\* the most recent invocation of func by the throttle
LastInvoked == invoked[Len(invoked)]

\* a step that is a call of the throttled / debounced function
IsThrCall == Len(calls') = Len(calls) + 1

IsDebCall == Len(debCalls') = Len(debCalls) + 1

\* a step in which a timer of the throttle invokes func
IsThrTimerFire == Len(invoked') = Len(invoked) + 1 /\ calls' = calls

SetMax(S) == CHOOSE m \in S : \A k \in S : k <= m

\* the calls made since the last invocation of func, less than delay after it
Coalesced ==
  {k \in (LastInvoked.seen + 1)..Len(calls) : calls[k] - LastInvoked.at < delay}

\* C6: any two consecutive invocations of func by a throttle are at least
\* delay apart, timers firing at or after their due time.
C6_RateCap ==
  \A i \in 1..(Len(invoked) - 1) : invoked[i + 1].at - invoked[i].at >= delay

\* C7: the first call to a new throttled function invokes func inside that
\* call, whatever the delay and the clock value, and schedules no timer.
C7_FirstCallImmediate ==
  [][(calls = <<>> /\ IsThrCall)
       => /\ Len(invoked') = 1
          /\ invoked'[1].by = "call"
          /\ invoked'[1].args = 1
          /\ timers' = {}]_vars

\* C8: calls made less than delay after the last firing do not invoke func;
\* they are coalesced into one pending timer due at lastFiring + delay that
\* carries the arguments of the latest of them, and the deferred invocation
\* carries those arguments.
C8_TrailingEdge ==
  /\ [][(invoked # <<>> /\ IsThrCall /\ now - LastInvoked.at < delay)
          => invoked' = invoked]_vars
  /\ []((invoked # <<>> /\ Coalesced # {})
          => \E t \in timers :
               /\ timers = {t}
               /\ t.due = LastInvoked.at + delay
               /\ t.args = SetMax(Coalesced))
  /\ [][(invoked # <<>> /\ Coalesced # {} /\ IsThrTimerFire)
          => invoked'[Len(invoked')].args = SetMax(Coalesced)]_vars

\* C9: whenever no timer of the throttle is pending (calls have stopped and
\* all timers have fired), the most recent invocation of func carried the
\* arguments of the last call made.
C9_FinalUpdateDelivered ==
  (timers = {} /\ calls # <<>>)
    => (invoked # <<>> /\ LastInvoked.args = Len(calls))

\* C10: when a call of a throttled or debounced function returns, no timer
\* created by an earlier call is still pending.
C10_CallCancelsPending ==
  /\ [][IsThrCall => \A t \in timers' : t.id >= nextTimerId]_vars
  /\ [][IsDebCall => \A t \in debTimers' : t.id >= debNextTimerId]_vars

\* C11: calls at t = 0, 10, 20, 30 on a fresh throttle with delay 100 give
\* exactly two invocations of func: an immediate one at t = 0 with the first
\* call's arguments and a deferred one at t = 100 with the last call's.
C11_ThrottleScenario ==
  /\ Len(calls) >= 1
       => /\ invoked # <<>>
          /\ invoked[1].at = ScnCallTimes[1]
          /\ invoked[1].args = 1
          /\ invoked[1].by = "call"
  /\ now = ScnEnd
       => /\ Len(invoked) = 2
          /\ invoked[2].at = ScnCallTimes[1] + ScnDelay
          /\ invoked[2].args = Len(ScnCallTimes)
          /\ invoked[2].by = "timer"

\* call k of the debounced function is the last of its burst: no call
\* follows it less than debDelay later
DebLastOfBurst(k) ==
  k = Len(debCalls) \/ debCalls[k + 1] - debCalls[k] >= debDelay

\* the invocations of func that carried the arguments of call k
DebInvocationsOf(k) == {i \in 1..Len(debInvoked) : debInvoked[i].args = k}

TdValueDeliveries == {i \in 1..Len(tdDelivered) : tdDelivered[i].val # Null}

\* C13: two deliveries of a non-null value by useThrottledMetrics are at
\* least throttleMs apart, whatever the arrivals and timer firings.
C13_DeliveryRateCap ==
  \A i \in TdValueDeliveries : \A j \in TdValueDeliveries :
    i < j => tdDelivered[j].at - tdDelivered[i].at >= throttleMs

\* C13 witness: an immediate delivery was followed by a scheduled one
C13_Witness ==
  /\ Len(tdDelivered) >= 2
  /\ tdDelivered[1].val # Null
  /\ tdDelivered[1].by = "arrival"
  /\ tdDelivered[2].val # Null
  /\ tdDelivered[2].by = "timer"
  /\ tdDelivered[2].at = tdDelivered[1].at + throttleMs
  /\ Len(tdArrivals) >= 3

\* C14: every delivery carries the value that arrived most recently, no
\* value is delivered after a later one, and once arrivals stop the mounted
\* hook's delivered value eventually equals the last arrived value.
C14_LastValueWins ==
  /\ [](\A i \in 1..Len(tdDelivered) :
          tdDelivered[i].val = tdArrivals[tdDelivered[i].seen].val)
  /\ [](\A i \in TdValueDeliveries : \A j \in TdValueDeliveries :
          i < j => tdDelivered[i].val < tdDelivered[j].val)
  /\ []((tdLife = "mounted" /\ tdTimers = {}) => throttledMetrics = metrics)
  /\ <>[](tdLife # "mounted" \/ throttledMetrics = metrics)

\* C14 witness: a scheduled update delivered the third arrival; the second,
\* coalesced with it, was never delivered
C14_Witness ==
  /\ Len(tdArrivals) = 3
  /\ tdArrivals[2].val # Null
  /\ tdDelivered # <<>>
  /\ tdDelivered[Len(tdDelivered)].by = "timer"
  /\ tdDelivered[Len(tdDelivered)].val = 3
  /\ \A i \in 1..Len(tdDelivered) : tdDelivered[i].val # 2

\* a step that is a render of useThrottledMetrics with a new, non-null value
IsTdValueArrival == Len(tdArrivals') = Len(tdArrivals) + 1 /\ metrics' # Null

\* C15: on an arrival at time now, if now - lastUpdateRef >= throttleMs the
\* value is delivered at once and lastUpdateRef becomes now; otherwise exactly
\* one delivery is scheduled for lastUpdateRef + throttleMs, replacing any
\* pending one; at most one scheduled delivery is pending at any time.
C15_DecisionRule ==
  /\ [][(IsTdValueArrival /\ now - lastUpdateRef >= throttleMs)
          => /\ throttledMetrics' = metrics'
             /\ lastUpdateRef' = now
             /\ tdTimers' = {}]_vars
  /\ [][(IsTdValueArrival /\ now - lastUpdateRef < throttleMs)
          => /\ throttledMetrics' = throttledMetrics
             /\ lastUpdateRef' = lastUpdateRef
             /\ \E t \in tdTimers' :
                  /\ tdTimers' = {t}
                  /\ t.due = lastUpdateRef + throttleMs
                  /\ t.args = metrics'
                  /\ t.id = tdNextTimerId]_vars
  /\ [](Cardinality(tdTimers) <= 1)

\* C15 witness: an arrival later than the last delivery replaced a pending
\* scheduled delivery by its own, due throttleMs after the last delivery
C15_Witness ==
  /\ tdNextTimerId >= 3
  /\ \E t \in tdTimers :
       /\ t.args = metrics
       /\ t.due = lastUpdateRef + throttleMs
       /\ tdArrivals[Len(tdArrivals)].at > lastUpdateRef

\* C16: after the unmount of the useThrottledMetrics consumer no delivery
\* happens: a scheduled delivery pending at teardown is cancelled and never
\* fires.
C16_NoDeliveryAfterTeardown ==
  /\ [](tdLife = "unmounted" => tdTimers = {})
  /\ [][tdLife = "unmounted"
          => (tdDelivered' = tdDelivered /\ throttledMetrics' = throttledMetrics)]_vars

\* C16 witness: the hook was unmounted with a scheduled delivery pending, and
\* the clock has passed the time it was due
C16_Witness ==
  /\ tdLife = "unmounted"
  /\ pendingUpdateRef # Null
  /\ metrics # Null
  /\ throttledMetrics # metrics
  /\ now >= lastUpdateRef + throttleMs

\* the index of the first arrival that carries a value (0 if there is none)
TdFirstValue ==
  IF \E i \in 1..Len(tdArrivals) : tdArrivals[i].val # Null
  THEN CHOOSE i \in 1..Len(tdArrivals) :
         /\ tdArrivals[i].val # Null
         /\ \A j \in 1..(i - 1) : tdArrivals[j].val = Null
  ELSE 0

\* a finished burst after a quiescent period: at least two arrivals of values,
\* all of them less than one interval after the first one, and no scheduled
\* delivery left to wait for
TdBurst ==
  /\ tdLife = "mounted"
  /\ TdFirstValue # 0
  /\ Len(tdArrivals) > TdFirstValue
  /\ \A i \in TdFirstValue..Len(tdArrivals) : tdArrivals[i].val # Null
  /\ tdArrivals[Len(tdArrivals)].at - tdArrivals[TdFirstValue].at < throttleMs
  /\ tdTimers = {}

\* C17 as stated: a burst of arrivals within less than one interval produces
\* exactly one delivery, carrying the last-arrived value, at least one
\* interval after the first arrival of the window.
C17_BurstOneDelivery ==
  TdBurst =>
    /\ Cardinality(TdValueDeliveries) = 1
    /\ \A i \in TdValueDeliveries :
         /\ tdDelivered[i].val = tdArrivals[Len(tdArrivals)].val
         /\ tdDelivered[i].at >= tdArrivals[TdFirstValue].at + throttleMs

\* C17 amended: the first arrival of the burst is delivered immediately and
\* opens the window; the rest of the burst produces exactly one further
\* delivery, made by the timer, carrying the last-arrived value, at least one
\* interval after the first arrival of the window.
C17_BurstOpeningPlusOne ==
  TdBurst =>
    /\ Cardinality(TdValueDeliveries) = 2
    /\ \E i, j \in TdValueDeliveries :
         /\ i < j
         /\ tdDelivered[i].val = tdArrivals[TdFirstValue].val
         /\ tdDelivered[i].at = tdArrivals[TdFirstValue].at
         /\ tdDelivered[i].by # "timer"
         /\ tdDelivered[j].val = tdArrivals[Len(tdArrivals)].val
         /\ tdDelivered[j].by = "timer"
         /\ tdDelivered[j].at >= tdArrivals[TdFirstValue].at + throttleMs

\* C17 witness: a finished burst whose arrivals came at different times
C17_Witness ==
  /\ TdBurst
  /\ tdArrivals[Len(tdArrivals)].at > tdArrivals[TdFirstValue].at
  /\ Cardinality(TdValueDeliveries) = 2

\* C18: after any number of appends the series of useMetricsHistory never
\* holds more than the window of 60 points.
C18_WindowBound == Len(historyRef) <= MAX_HISTORY_POINTS

\* C18 witness: more points than the window were appended and the series is
\* at the window
C18_Witness ==
  /\ Len(hsAppended) > MAX_HISTORY_POINTS
  /\ Len(historyRef) = MAX_HISTORY_POINTS

\* the effect body ran in this step
IsHsAppend == Len(hsAppended') = Len(hsAppended) + 1

\* C19: after n appends the series holds the last min(n, 60) appended points
\* in append order, oldest first; an append at the window removes the oldest
\* point (65 appends leave the points 6..65).
C19_LastPointsOldestFirst ==
  /\ [](LET n == Len(hsAppended)
            k == IF n <= MAX_HISTORY_POINTS THEN n ELSE MAX_HISTORY_POINTS
        IN /\ Len(historyRef) = k
           /\ \A i \in 1..k : historyRef[i] = hsAppended[n - k + i])
  /\ [][(IsHsAppend /\ Len(historyRef) = MAX_HISTORY_POINTS)
          => historyRef' = Append(Tail(historyRef), hsAppended'[Len(hsAppended')])]_vars

\* C19 witness: 65 points were appended and the series runs from the 6th to
\* the 65th of them
C19_Witness ==
  /\ Len(hsAppended) = MAX_HISTORY_POINTS + 5
  /\ historyRef[1] = hsAppended[6]
  /\ historyRef[MAX_HISTORY_POINTS] = hsAppended[MAX_HISTORY_POINTS + 5]

\* a render of the hook with a sample: the hook's way of appending
IsHsSample == hsRenders' = hsRenders + 1

\* C20: every sample handed to useMetricsHistory adds exactly one point, also
\* when its value equals the previous one: below the window the length grows
\* by one, at the window the oldest point is dropped and the new one added.
C20_EverySampleAddsPoint ==
  [][IsHsSample =>
       LET point == [time |-> TimeStr(hsRenders'), value |-> currentValue']
       IN IF Len(historyRef) < MAX_HISTORY_POINTS
          THEN historyRef' = Append(historyRef, point)
          ELSE historyRef' = Append(Tail(historyRef), point)]_vars

\* C21: an array obtained from CircularBuffer.toArray() or returned by
\* useMetricsHistory is never changed by a later push, pop, clear or append:
\* whatever happens to the buffer or the series, the array a reader holds has
\* the content it had when the reader got it.
C21_SnapshotsCopyOut ==
  /\ bufSnap.held => BufView = bufSnap.taken
  /\ hsSnap.held => HsView = hsSnap.taken

\* C21 witness: the reader of the buffer holds an array taken before items
\* were popped and pushed, the reader of the series one taken before a point
\* was appended
C21_Witness ==
  /\ bufSnap.held
  /\ bufSnap.taken # <<>>
  /\ bufSnap.taken # ToArray
  /\ cleared
  /\ hsSnap.held
  /\ hsSnap.taken # <<>>
  /\ hsSnap.taken # historyRef

\* the last min(n, cap) elements of a log of n values, by position
LastOf(log, cap) ==
  LET n == Len(log)
      k == IF n <= cap THEN n ELSE cap
  IN [i \in 1..k |-> log[n - k + i]]

\* a value was recorded under the name in this step
IsPmRecord(name) == pmCount'[name] = pmCount[name] + 1

\* C22: for every name the retained history of the PerformanceMonitor holds
\* at most 1000 values and equals the last min(n, 1000) values recorded under
\* the name, in recording order; a recordMetric call or a stop-function
\* invocation adds exactly one record under its name (dropping the oldest at
\* the cap) and leaves the histories of all other names unchanged.
C22_BoundedHistoryPerName ==
  /\ [](\A name \in DOMAIN pmMetrics :
          /\ Len(pmMetrics[name]) <= maxHistory
          /\ pmMetrics[name] = LastOf(pmSince[name], maxHistory))
  /\ [](DOMAIN pmMetrics = {name \in PmNames : pmCount[name] > 0})
  /\ [][\A name \in PmNames : IsPmRecord(name) =>
          /\ pmMetrics'[name] =
               (IF Len(PmHistory(name)) < maxHistory
                THEN Append(PmHistory(name), PmSample(pmCount'[name]))
                ELSE Append(Tail(PmHistory(name)), PmSample(pmCount'[name])))
          /\ \A other \in PmNames \ {name} :
               /\ (other \in DOMAIN pmMetrics') = (other \in DOMAIN pmMetrics)
               /\ other \in DOMAIN pmMetrics => pmMetrics'[other] = pmMetrics[other]]_vars

\* C22 witness: more than 1001 values were recorded under a name that has a
\* stop function, its history is at the cap, and another name has a
\* history of its own
C22_Witness ==
  /\ \E name \in PmNames :
       /\ pmCount[name] > maxHistory + 1
       /\ name \in pmStops
       /\ Len(pmMetrics[name]) = maxHistory
  /\ \E other \in DOMAIN pmMetrics : Len(pmMetrics[other]) = MaxOtherRecords

IsPmClear ==
  pmCleared' /\ pmSince' = EmptyMap /\ pmCount' = pmCount /\ pmStops' = pmStops

\* C24: immediately after clear() getMetrics() is empty and getAverage,
\* getMin and getMax return 0 for every name; what is recorded after a
\* clear() is aggregated without the records made before it.
C24_ClearResetsAll ==
  /\ [][IsPmClear =>
          /\ GetMetrics' = EmptyMap
          /\ \A name \in PmNames :
               GetAverage(name)' = Zero /\ GetMin(name)' = 0 /\ GetMax(name)' = 0]_vars
  /\ [](pmCleared =>
          /\ DOMAIN GetMetrics = DOMAIN pmSince
          /\ \A name \in PmNames :
               LET since == IF name \in DOMAIN pmSince THEN pmSince[name] ELSE <<>>
               IN /\ GetAverage(name) = PmAverage(since)
                  /\ GetMin(name) = PmMin(since)
                  /\ GetMax(name) = PmMax(since)
                  /\ name \in DOMAIN GetMetrics => GetMetrics[name].count = Len(since))

\* C24 witness: the smallest and the largest value of a name were recorded
\* before a clear(), one value after it
C24_Witness ==
  /\ pmCleared
  /\ \E name \in DOMAIN GetMetrics :
       /\ pmCount[name] = 3
       /\ GetMetrics[name].count = 1
       /\ GetMin(name) = PmSample(3)
       /\ GetMax(name) = PmSample(3)

\* C25: the analysis functions guard division by zero: for every snapshot,
\* also with cycles = 0, instructions = 0 or numaHits + numaMisses = 0, each
\* of ipc, cacheMissRate, branchMissRate, efficiency and numaEfficiency is a
\* defined number, never NaN or infinite.
C25_NoNaNNoInfinity ==
  /\ daOp = "analyzeCpuPerformance" =>
       /\ IsNumber(daOut.ipc)
       /\ IsNumber(daOut.cacheMissRate)
       /\ IsNumber(daOut.branchMissRate)
       /\ IsNumber(daOut.efficiency)
  /\ daOp = "analyzeMemoryPressure" => IsNumber(daOut.numaEfficiency)

\* C26: isHealthy is true exactly when memoryPressure < 0.5 and
\* swapActivity = (swapIns + swapOuts) / 1000 < 0.1, both bounds strict:
\* (0.499, 0.099) gives true, (0.5, 0.1) gives false, and either bound
\* reached alone gives false.
C26_IsHealthyStrictBounds ==
  daOp = "analyzeMemoryPressure" =>
    LET swaps == daIn.swap_ins + daIn.swap_outs
        pressure == daIn.memory_pressure
    IN /\ daOut.swapActivity = Frac(swaps, 1000)
       /\ daOut.isHealthy = (2 * pressure.num < pressure.den /\ swaps < 100)
       /\ (pressure = Frac(499, 1000) /\ swaps = 99) => daOut.isHealthy
       /\ pressure = Frac(500, 1000) => ~daOut.isHealthy
       /\ swaps = 100 => ~daOut.isHealthy

\* C26 witness: the snapshot just below both bounds, found healthy
C26_Witness ==
  /\ daOp = "analyzeMemoryPressure"
  /\ daIn.memory_pressure = Frac(499, 1000)
  /\ daIn.swap_ins + daIn.swap_outs = 99
  /\ daOut.isHealthy

\* C27: with totalLatencyUs = totalLatencyNs / 1000 the status is Optimal
\* exactly when totalLatencyUs < 10, Good exactly when 10 <= totalLatencyUs
\* < 50 and Poor exactly when totalLatencyUs >= 50; every snapshot gets one
\* tier, and isOptimal is true exactly for the Optimal tier.
C27_LatencyTiers ==
  /\ (daOp = "getPerformanceStatus" /\ daIn # NoMetrics) =>
       /\ daOut \in {"Optimal", "Good", "Poor"}
       /\ (daOut = "Optimal") = (daIn.total_latency_ns < 10000)
       /\ (daOut = "Good") = (10000 <= daIn.total_latency_ns
                                /\ daIn.total_latency_ns < 50000)
       /\ (daOut = "Poor") = (daIn.total_latency_ns >= 50000)
       /\ (daOut = "Optimal") = Latency(daIn).isOptimal
  /\ daOp = "analyzeLatency" =>
       /\ daOut.isOptimal = (daIn.total_latency_ns < 10000)
       /\ daOut.totalLatency = Frac(daIn.total_latency_ns, 1000)

\* C27 witness: a snapshot exactly at the 10 microsecond threshold, classed
\* Good
C27_Witness ==
  /\ daOp = "getPerformanceStatus"
  /\ daIn # NoMetrics
  /\ daIn.total_latency_ns = 10000
  /\ daOut = "Good"

IsStop == (isRunning /\ ~isRunning') \/ (isListening /\ ~isListening')

\* C29: when monitoring is stopped, the CircularBuffer, the history of
\* useMetricsHistory and the PerformanceMonitor of the monitored stream are
\* cleared: they are empty after the stop (and stay usable, so that after a
\* restart they hold only data recorded since the restart).
C29_StopClearsContainers ==
  [][IsStop => (size' = 0 /\ historyRef' = <<>> /\ pmMetrics' = EmptyMap)]_vars

\* C30: a counter absent from the upstream snapshot (no temperature sensor,
\* no frequency entry for a core) is carried through processing as an
\* explicit "not available" value and never replaced by 0; a counter that is
\* present with value 0 is never turned into "not available".
C30_AbsentKeptZeroKept ==
  /\ daOp = "processedData" =>
       /\ daOut.temperature = daIn.temperature
       /\ \A i \in 1..Len(daIn.per_core_usage) :
            daOut.coreData[i].frequency = At(daIn.frequency_mhz, i)
  /\ daOp = "formatLoadAverage" => daOut.text # "Not available"

\* the arguments passed to func, in the order of the invocations
InvokedArgs == [i \in 1..Len(invoked) |-> invoked[i].args]

\* C33: a throttle preserves arrival order: the arguments passed to func form
\* a subsequence of the calls in call order, so func is never invoked with
\* the arguments of an earlier call after those of a later call, also when a
\* timer fires later than its due time.
C33_ThrottleKeepsOrder ==
  \A i \in 1..Len(InvokedArgs) : \A j \in 1..Len(InvokedArgs) :
    i < j => InvokedArgs[i] < InvokedArgs[j]

\* C34: a call made exactly delay after the last firing is outside the
\* coalescing window and invokes func inside the call.
C34_BoundaryCallFires ==
  [][(invoked # <<>> /\ IsThrCall /\ now - LastInvoked.at = delay)
       => /\ Len(invoked') = Len(invoked) + 1
          /\ invoked'[Len(invoked')].by = "call"
          /\ invoked'[Len(invoked')].args = Len(calls')]_vars

\* C39: in useThrottledMetrics, when the metrics value becomes null the
\* delivered value becomes null at once, and an update scheduled for an
\* earlier value never fires afterwards: while the metrics value is null the
\* delivered value is null and no update is pending.
C39_NullDeliveredAtOnce ==
  (tdLife # "new" /\ metrics = Null)
    => /\ throttledMetrics = Null
       /\ tdTimers = {}

\* C39 witness: null arrived while the update for the previous value, which
\* was never delivered, was still scheduled
C39_Witness ==
  /\ tdLife = "mounted"
  /\ metrics = Null
  /\ Len(tdArrivals) >= 2
  /\ tdArrivals[Len(tdArrivals) - 1].val # Null
  /\ \A i \in 1..Len(tdDelivered) :
       tdDelivered[i].val # tdArrivals[Len(tdArrivals) - 1].val
  /\ throttledMetrics = Null

\* a step in which the user activates the monitoring toggle of App
IsAppToggle == appToggles' = appToggles + 1

\* a step in which a command invoked by App resolves
IsAppSuccess(command) ==
  /\ appPending'[command] = appPending[command] - 1
  /\ appLastOk' = command

\* C31: activating the toggle while isMonitoring is true invokes
\* stop_monitoring, while false start_monitoring; isMonitoring changes only
\* when the invoked command has succeeded, so that isMonitoring equals the
\* state set by the last successful command.
C31_ToggleFollowsCommands ==
  /\ [][IsAppToggle =>
          /\ isMonitoring => appPending' = AppInvoked(appPending, "stop_monitoring")
          /\ ~isMonitoring => appPending' = AppInvoked(appPending, "start_monitoring")
          /\ isMonitoring' = isMonitoring]_vars
  /\ [][(isMonitoring' # isMonitoring) =>
          IF isMonitoring' THEN IsAppSuccess("start_monitoring")
                           ELSE IsAppSuccess("stop_monitoring")]_vars
  /\ [](isMonitoring = (appLastOk = "start_monitoring"))

\* C31 witness: three toggles have completed, the last successful command
\* was stop_monitoring and App shows monitoring off
C31_Witness ==
  /\ appLife = "mounted"
  /\ appToggles = 3
  /\ \A c \in AppCommands : appPending[c] = 0
  /\ appLastOk = "stop_monitoring"
  /\ ~isMonitoring

\* C32: if get_system_info fails during the startup of App, the error shown
\* once the startup has settled is the 'Failed to load system info' message,
\* whatever the outcome and completion order of the start_monitoring command
\* issued at mount.
C32_InfoErrorShown ==
  (/\ appLife = "mounted"
   /\ appToggles = 0
   /\ appInfoFailed
   /\ \A c \in AppCommands : appPending[c] = 0)
    => error = InfoError

\* a step in which the listener invokes the metrics callback
IsHpCallback == hpDelivered' = hpDelivered + 1

\* C35: HighPerfMonitoringService passes an event to the registered callback
\* only while monitoring is active (isActive() is true); after a failed
\* startMonitoring no callback is invoked.
C35_CallbackOnlyWhileActive ==
  [][IsHpCallback => isRunning]_vars

\* C36: after destroy() the metrics callback is never invoked again,
\* whatever the interleaving with the pending listener registration and with
\* a failing or slow stop command (and the subscription is removed).
C36_NoCallbackAfterDestroy ==
  [][IsHpCallback => ~hpDestroyed]_vars

\* a step that is a call of startMonitoring / of stopMonitoring
IsHpStartCall == hpApiCalls' = hpApiCalls + 1 /\ hpStopPending' = hpStopPending

IsHpStopCall == hpApiCalls' = hpApiCalls + 1 /\ hpStartPending' = hpStartPending

\* C37: a startMonitoring(cb2) called while a startMonitoring(cb1) still
\* awaits the backend issues no second start command and leaves the callback
\* cb1 registered; stopMonitoring when not running issues no command.
C37_StartIdempotentUnderOverlap ==
  /\ [][(IsHpStartCall /\ hpStartPending > 0)
          => /\ hpStartIssued' = hpStartIssued
             /\ metricsCallback' = metricsCallback]_vars
  /\ [][(IsHpStopCall /\ ~isRunning) => hpStopPending' = hpStopPending]_vars

\* C38: when AppWrapper is unmounted after a completed initialisation, every
\* callback source it set up is cancelled: the poll interval is cleared, the
\* 'system-metrics' listener is unsubscribed and stop_monitoring is invoked,
\* so that no metrics update follows the unmount.
C38_UnmountCancelsSources ==
  /\ []((wrapLife = "unmounted" /\ wrapInit = "done")
          => (~wrapPoll /\ ~wrapListener /\ wrapStopInvoked))
  /\ [][(wrapLife = "unmounted" /\ wrapInit = "done")
          => wrapUpdates' = wrapUpdates]_vars

====
